---- MODULE Spec2Model ----
(***************************************************************************)
(* A model of nagger: the MongoDB task and settings stores, the per-minute *)
(* reminder scheduler and the message retention sweeper.                   *)
(*                                                                         *)
(* A MongoDB document is a function from field names to values; a field   *)
(* that the document does not have is outside its DOMAIN, so $exists,     *)
(* $unset and omitempty are what they are in the database.  Times are     *)
(* minutes since midnight UTC of day 0.  An "HH:MM" string is the         *)
(* sequence of its characters.                                            *)
(***************************************************************************)
EXTENDS Integers, Sequences, FiniteSets, TLC

(* ------------------------------ bounds --------------------------------- *)

\* Task ids the store ever hands out (ObjectIDs are never reused).
MaxTasks == 2
\* Minutes the clock advances after the process starts.
MaxElapsed == 2
\* Bot messages the tracking store ever holds.
MaxMessages == 2
\* Ticks the cleanup ticker delivers while the loops are observed.
MaxCleanupTicks == 2

\* The process starts at 08:59 UTC, or at 23:59 UTC (08:59 in Asia/Tokyo).
StartTimes == {539, 1439}

Chats == {1, 2}
Users == {7}
Descriptions == {"water plants"}

(* ----------------------------- variables ------------------------------- *)

VARIABLES
    now,          \* the wall clock, in minutes
    tasks,        \* the "tasks" collection: _id -> document
    nextId,       \* the next ObjectID the tasks collection assigns
    settings,     \* the "user_settings" collection: _id -> document
    nextSid,      \* the next ObjectID the user_settings collection assigns
    closed,       \* the closed channels among ctx.Done() and the two stopChans
    schedPc,      \* Scheduler: "init", "waiting" (in select), "ticking", "stopped"
    tickDue,      \* the scheduler's ticker has yet to fire in this minute
    tickPending,  \* a tick is buffered in ticker.C
    tickAt,       \* when the last sendReminders began, -1 before the first
    tickTasks,    \* sendReminders: the map read from GetAllActiveTasks
    tickSettings, \* sendReminders: the map read from GetAllUserSettings
    todo,         \* sendReminders: the chats the range loop has yet to visit
    visited,      \* sendReminders: chat -> the minute its time was compared
    notified,     \* the SendDailyReminderWithTasks calls of this tick
    botMessages,  \* the tracked bot messages: _id -> document
    nextMid,      \* the next ObjectID the tracking collection assigns
    cleanPc,      \* CleanupScheduler: "init", "starting", "waiting", "sweeping",
                  \* "stopped"
    cleanPending, \* a tick is buffered in the cleanup ticker's channel
    sweepCutoff,  \* cleanupOldMessages: cutoffTime, -1 before the first sweep
    sweepList,    \* cleanupOldMessages: the messages yet to be handled
    sweepLog,     \* the DeleteMessage and DeleteBotMessage calls of this sweep
    sweepOld,     \* history: the ids that were older than cutoff at sweep start
    sweepMid,     \* history: nextMid at sweep start
    sweepStoreOk, \* history: the store answered every call of this sweep
    prevSweep,    \* history: the sweep before this one
    last,         \* history: the last storage call or command and its outcome
    trip,         \* history: the complete/reactivate round trip under way
    reminded      \* history: chat -> the minute and number of its last reminder

taskVars == <<tasks, nextId>>
settingsVars == <<settings, nextSid>>
schedVars == <<closed, schedPc, tickDue, tickPending, tickAt, tickTasks, tickSettings,
               todo, visited, notified>>
sweepVars == <<botMessages, nextMid, cleanPc, cleanPending, sweepCutoff,
               sweepList, sweepLog, sweepOld, sweepMid, sweepStoreOk, prevSweep>>
histVars == <<last, trip, reminded>>

vars == <<now, taskVars, settingsVars, schedVars, sweepVars, histVars>>

(* ------------------------- task documents ------------------------------ *)

TaskStatusActive == "active"
TaskStatusCompletedToday == "completed_today"
TaskStatusClosed == "closed"

NoError == "nil"
ErrNotFound == "task not found"
ErrStore == "store unreachable"

None == [none |-> TRUE]

\* $set: the fields of upd replace or extend those of doc.
SetFields(doc, upd) ==
    [f \in DOMAIN doc \cup DOMAIN upd |->
        IF f \in DOMAIN upd THEN upd[f] ELSE doc[f]]

\* $unset: the named fields are removed from doc.
UnsetFields(doc, fields) == [f \in DOMAIN doc \ fields |-> doc[f]]

\* A document written by the first version of the program, whose Task had
\* no status and no completed_at field.
LegacyTask(id, chat) ==
    [_id |-> id, chat_id |-> chat, user_id |-> 7,
     description |-> "water plants", created_at |-> 0, completed |-> FALSE]

\* The document AddTask inserts: CompletedAt is nil and omitempty.
NewTaskDoc(id, chat, user, description, t) ==
    [_id |-> id, chat_id |-> chat, user_id |-> user,
     description |-> description, created_at |-> t,
     completed |-> FALSE, status |-> TaskStatusActive]

\* {"status": {"$ne": "closed"}}: $ne also matches a document without the field.
StatusNeClosed(doc) == "status" \notin DOMAIN doc \/ doc.status # TaskStatusClosed

\* {"status": {"$exists": false}}
StatusNotExists(doc) == "status" \notin DOMAIN doc

\* The $or filter of GetTasksByChatID and GetAllActiveTasks.
NoFilter(doc) == TRUE
OnlyActiveFilter(doc) == "status" \in DOMAIN doc /\ doc.status = TaskStatusActive
NotClosedFilter(doc) == StatusNeClosed(doc) \/ StatusNotExists(doc)

\* The ids of a set in insertion order (ObjectIDs grow with insertion).
RECURSIVE InOrder(_)
InOrder(ids) ==
    IF ids = {} THEN <<>>
    ELSE LET m == CHOOSE i \in ids : \A j \in ids : i <= j
         IN <<m>> \o InOrder(ids \ {m})

\* GetTasksByChatID: the ids of the chat's documents that pass the filter.
GetTasksByChatID(coll, chat) ==
    InOrder({id \in DOMAIN coll :
                coll[id].chat_id = chat /\ NotClosedFilter(coll[id])})

\* GetAllActiveTasks: the documents that pass the filter, grouped by chat_id.
\* A chat with no such document is not a key of the map.
GetAllActiveTasks(coll) ==
    LET found == {id \in DOMAIN coll : NotClosedFilter(coll[id])}
        keys == {coll[id].chat_id : id \in found}
    IN [c \in keys |-> InOrder({id \in found : coll[id].chat_id = c})]

\* The update documents of CompleteTask, ReactivateTask and CloseTask.
CompletesOnce(doc, t) ==
    IF "completed_at" \in DOMAIN doc THEN doc
    ELSE SetFields(doc, [completed |-> TRUE, status |-> TaskStatusCompletedToday,
                         completed_at |-> t])
CompleteUpdate(doc, t) ==
    SetFields(doc, [completed |-> TRUE, status |-> TaskStatusCompletedToday,
                    completed_at |-> t])

ReactivateKeepsCompletedAt(doc) ==
    SetFields(doc, [completed |-> FALSE, status |-> TaskStatusActive])
ReactivateUpdate(doc) ==
    UnsetFields(SetFields(doc, [completed |-> FALSE, status |-> TaskStatusActive]),
                {"completed_at"})

CloseDropsCompletedAt(doc) ==
    UnsetFields(SetFields(doc, [completed |-> TRUE, status |-> TaskStatusClosed]),
                {"completed_at"})
CloseUpdate(doc) ==
    SetFields(doc, [completed |-> TRUE, status |-> TaskStatusClosed])

(* ------------------------------ history -------------------------------- *)

\* What the round-trip history becomes when storage call op has changed
\* task id, whose document was before.
TripAfter(op, id, before) ==
    IF op = "CompleteTask" /\ "status" \in DOMAIN before
          /\ before.status = TaskStatusActive /\ "completed_at" \notin DOMAIN before
    THEN [id |-> id, start |-> before, phase |-> "completed"]
    ELSE IF op = "ReactivateTask" /\ trip # None /\ trip.id = id
               /\ trip.phase = "completed"
    THEN [trip EXCEPT !.phase = "reactivated"]
    ELSE IF trip # None /\ trip.id = id THEN None
    ELSE trip

(* -------------------------- task store calls --------------------------- *)

\* Each call takes ok, whether the database answers, and err, the error the
\* call returns to its caller.

\* AddTask: InsertOne, which assigns the _id.
AddTask(chat, user, description, ok, err) ==
    /\ nextId <= MaxTasks
    /\ err = IF ok THEN NoError ELSE ErrStore
    /\ IF ok
       THEN /\ tasks' = [id \in DOMAIN tasks \cup {nextId} |->
                            IF id = nextId
                            THEN NewTaskDoc(nextId, chat, user, description, now)
                            ELSE tasks[id]]
            /\ nextId' = nextId + 1
       ELSE UNCHANGED <<tasks, nextId>>

\* The Task values a caller of AddTask can build: any Status, with the
\* Completed flag that goes with it, and CompletedAt nil (no field) or set.
TaskValue(chat, status, withCompletedAt) ==
    LET v == [chat_id |-> chat, user_id |-> 7, description |-> "water plants",
              completed |-> status \in {TaskStatusCompletedToday, TaskStatusClosed},
              status |-> status]
    IN IF withCompletedAt THEN SetFields(v, [completed_at |-> 0]) ELSE v

TaskValues ==
    {TaskValue(c, st, at) :
        c \in Chats,
        st \in {"", TaskStatusActive, TaskStatusCompletedToday, TaskStatusClosed},
        at \in BOOLEAN}

\* The document AddTask inserts for the caller's value: CreatedAt, Completed
\* and Status are overwritten, every other field is marshalled as it is.
InsertKeepsStatus(task, id, t) ==
    SetFields(task, [_id |-> id, created_at |-> t])
InsertedDoc(task, id, t) ==
    SetFields(task, [_id |-> id, created_at |-> t, completed |-> FALSE,
                     status |-> TaskStatusActive])

\* AddTask on any Task value.
AddTaskValue(task, ok, err) ==
    /\ nextId <= MaxTasks
    /\ err = IF ok THEN NoError ELSE ErrStore
    /\ IF ok
       THEN /\ tasks' = [id \in DOMAIN tasks \cup {nextId} |->
                            IF id = nextId THEN InsertedDoc(task, nextId, now)
                            ELSE tasks[id]]
            /\ nextId' = nextId + 1
       ELSE UNCHANGED <<tasks, nextId>>

\* UpdateOne with filter {"_id": id}; MatchedCount = 0 is "task not found".
NotFoundIsNil(id, ok, err, after) ==
    /\ err = IF ok THEN NoError ELSE ErrStore
    /\ tasks' = IF id \in DOMAIN tasks /\ ok THEN [tasks EXCEPT ![id] = after] ELSE tasks
    /\ UNCHANGED nextId
UpdateOne(id, ok, err, after) ==
    /\ err = IF ~ok THEN ErrStore
             ELSE IF id \notin DOMAIN tasks THEN ErrNotFound
             ELSE NoError
    /\ tasks' = IF err = NoError THEN [tasks EXCEPT ![id] = after] ELSE tasks
    /\ UNCHANGED nextId

CompleteTask(id, ok, err) ==
    UpdateOne(id, ok, err,
              IF id \in DOMAIN tasks THEN CompleteUpdate(tasks[id], now) ELSE None)

ReactivateTask(id, ok, err) ==
    UpdateOne(id, ok, err,
              IF id \in DOMAIN tasks THEN ReactivateUpdate(tasks[id]) ELSE None)

CloseTask(id, ok, err) ==
    UpdateOne(id, ok, err,
              IF id \in DOMAIN tasks THEN CloseUpdate(tasks[id]) ELSE None)

\* DeleteTask: DeleteOne with filter {"_id": id}; DeletedCount = 0 is
\* "task not found".
DeleteSparesClosed(id, ok, err) ==
    /\ err = IF ~ok THEN ErrStore
             ELSE IF id \notin DOMAIN tasks THEN ErrNotFound
             ELSE NoError
    /\ tasks' = IF err = NoError /\ StatusNeClosed(tasks[id])
                THEN [i \in DOMAIN tasks \ {id} |-> tasks[i]]
                ELSE tasks
    /\ UNCHANGED nextId
DeleteTask(id, ok, err) ==
    /\ err = IF ~ok THEN ErrStore
             ELSE IF id \notin DOMAIN tasks THEN ErrNotFound
             ELSE NoError
    /\ tasks' = IF err = NoError THEN [i \in DOMAIN tasks \ {id} |-> tasks[i]]
                ELSE tasks
    /\ UNCHANGED nextId


(* --------------------------- settings store ---------------------------- *)

\* "HH:MM" strings, character by character.
T0900 == <<"0", "9", ":", "0", "0">>
T0901 == <<"0", "9", ":", "0", "1">>

\* Reminder times and zone names that callers pass to SetUserSettings.
ReminderTimes == {T0900, T0901}
ZoneNames == {"UTC", "Asia/Tokyo", "Mars/Phobos"}

\* The documents of the collection that match {"chat_id": chat}.
SettingsOf(coll, chat) == {sid \in DOMAIN coll : coll[sid].chat_id = chat}

\* The document an upsert inserts when nothing matches: the filter's fields,
\* the $set fields and the $setOnInsert fields.
NewSettingsDoc(sid, chat, user, reminderTime, timezone, t) ==
    [_id |-> sid, chat_id |-> chat, user_id |-> user,
     reminder_time |-> reminderTime, timezone |-> timezone,
     updated_at |-> t, created_at |-> t]

\* UpdateOne with SetUpsert(true): the first matching document gets the $set
\* fields; without a match a new document is inserted.
InsertSettings(coll, sid, chat, user, reminderTime, timezone, t) ==
    (sid :> NewSettingsDoc(sid, chat, user, reminderTime, timezone, t)) @@ coll
UpsertSettings(coll, sid, chat, user, reminderTime, timezone, t) ==
    IF SettingsOf(coll, chat) = {}
    THEN (sid :> NewSettingsDoc(sid, chat, user, reminderTime, timezone, t)) @@ coll
    ELSE LET first == CHOOSE i \in SettingsOf(coll, chat) :
                         \A j \in SettingsOf(coll, chat) : i <= j
         IN [coll EXCEPT ![first] =
                SetFields(coll[first],
                          [user_id |-> user, reminder_time |-> reminderTime,
                           timezone |-> timezone, updated_at |-> t])]

\* SetUserSettings for the chat of the settings value.
SetUserSettings(chat, user, reminderTime, timezone, ok, err) ==
    /\ err = IF ok THEN NoError ELSE ErrStore
    /\ settings' = IF ok
                   THEN UpsertSettings(settings, nextSid, chat, user,
                                       reminderTime, timezone, now)
                   ELSE settings
    /\ nextSid' = IF DOMAIN settings' = DOMAIN settings THEN nextSid ELSE nextSid + 1

\* GetAllUserSettings: chat -> settings; of two documents of one chat the
\* later in the list overwrites the earlier.
GetAllUserSettings(coll) ==
    [c \in {coll[sid].chat_id : sid \in DOMAIN coll} |->
        LET lastDoc == coll[CHOOSE i \in SettingsOf(coll, c) :
                                \A j \in SettingsOf(coll, c) : j <= i]
        IN [ReminderTime |-> lastDoc.reminder_time, Timezone |-> lastDoc.timezone]]

(* ------------------------- reminder scheduler -------------------------- *)

\* Config.Load's defaults for REMINDER_TIME and REMINDER_TIMEZONE.
defaultTime == T0900
defaultTimezone == "UTC"

\* time.LoadLocation: the zone's offset from UTC in minutes, or an error.
LoadLocation(name) ==
    CASE name = "UTC" -> [err |-> FALSE, offset |-> 0]
      [] name = "Asia/Tokyo" -> [err |-> FALSE, offset |-> 540]
      [] OTHER -> [err |-> TRUE, offset |-> 0]

Digit(d) == <<"0", "1", "2", "3", "4", "5", "6", "7", "8", "9">>[d + 1]

\* time.Time.In(loc).Format("15:04")
Format1504(t, offset) ==
    LET local == (t + offset) % 1440
        hour == local \div 60
        minute == local % 60
    IN <<Digit(hour \div 10), Digit(hour % 10), ":",
         Digit(minute \div 10), Digit(minute % 10)>>

\* shouldSendReminderForUser, with time.Now() = t.
ComparesHourOnly(reminderTime, timezone, t) ==
    LET loc == LoadLocation(timezone)
        offset == IF loc.err THEN LoadLocation(defaultTimezone).offset ELSE loc.offset
    IN SubSeq(Format1504(t, offset), 1, 2) = SubSeq(reminderTime, 1, 2)
SkipsUnknownZone(reminderTime, timezone, t) ==
    LET loc == LoadLocation(timezone)
    IN ~loc.err /\ Format1504(t, loc.offset) = reminderTime
shouldSendReminderForUser(reminderTime, timezone, t) ==
    LET loc == LoadLocation(timezone)
        offset == IF loc.err THEN LoadLocation(defaultTimezone).offset ELSE loc.offset
    IN Format1504(t, offset) = reminderTime

\* sendReminders: the settings of the chat, or the defaults.
DefaultsToMidnight(found, chat) ==
    IF chat \in DOMAIN found
    THEN <<found[chat].ReminderTime, found[chat].Timezone>>
    ELSE <<<<"0", "0", ":", "0", "0">>, defaultTimezone>>
ResolveSettings(found, chat) ==
    IF chat \in DOMAIN found
    THEN <<found[chat].ReminderTime, found[chat].Timezone>>
    ELSE <<defaultTime, defaultTimezone>>

\* A task as the scheduler and the bot see it through types.TaskWithID; a
\* document without a status field decodes to the empty status.
TaskWithID(doc) ==
    [ID |-> doc._id, Description |-> doc.description,
     Status |-> IF "status" \in DOMAIN doc THEN doc.status ELSE ""]

\* The map sendReminders gets from GetAllActiveTasks.
ActiveTasksRead(coll) ==
    LET m == GetAllActiveTasks(coll)
    IN [c \in DOMAIN m |-> [i \in 1..Len(m[c]) |-> TaskWithID(coll[m[c][i]])]]

\* Bot.SendDailyReminderWithTasks: what reaches the Telegram API.  With no
\* task it returns nil without sending.
SendDailyReminderWithTasks(chat, list, t, apiOk) ==
    [chat |-> chat, tasks |-> list, at |-> t,
     sent |-> Len(list) > 0,
     err |-> Len(list) > 0 /\ ~apiOk]

TickerRunning == schedPc \in {"waiting", "ticking"}

\* Scheduler.Start: the goroutine creates its ticker and waits in select.
Start ==
    /\ schedPc = "init"
    /\ schedPc' = "waiting"
    /\ UNCHANGED <<closed, tickDue, tickPending, tickAt, tickTasks, tickSettings,
                   todo, visited, notified>>

\* The ticker fires once in every minute after the one it was created in;
\* ticker.C holds one tick, a second one is dropped.
TickerFire ==
    /\ TickerRunning
    /\ tickDue
    /\ tickDue' = FALSE
    /\ tickPending' = TRUE
    /\ UNCHANGED <<closed, schedPc, tickAt, tickTasks, tickSettings, todo,
                   visited, notified>>

\* sendReminders: the settings map it goes on with; the empty map when
\* GetAllUserSettings fails.
StoredSettingsAfterError(coll, settingsOk) == GetAllUserSettings(coll)
SettingsRead(coll, settingsOk) ==
    IF settingsOk THEN GetAllUserSettings(coll) ELSE <<>>

\* The read of sendReminders that failed: GetAllActiveTasks, after which it
\* returns, or GetAllUserSettings, after which it goes on.
ReadError(tasksOk, settingsOk) ==
    IF ~tasksOk THEN "tasks" ELSE IF ~settingsOk THEN "settings" ELSE NoError

\* run receives from ticker.C and sendReminders reads the two stores.
TickBeginsWhileTicking(tasksOk, settingsOk) ==
    /\ schedPc \in {"waiting", "ticking"}
    /\ tickPending
    /\ tickPending' = FALSE
    /\ tickAt' = now
    /\ visited' = <<>>
    /\ notified' = <<>>
    /\ tickTasks' = IF tasksOk THEN ActiveTasksRead(tasks) ELSE <<>>
    /\ tickSettings' = IF tasksOk THEN SettingsRead(settings, settingsOk) ELSE <<>>
    /\ todo' = DOMAIN tickTasks'
    /\ schedPc' = IF todo' = {} THEN "waiting" ELSE "ticking"
    /\ UNCHANGED <<closed, tickDue>>
TickBeginRetriesFailedRead(tasksOk, settingsOk) ==
    /\ schedPc = "waiting"
    /\ tickPending
    /\ tickPending' = ~tasksOk
    /\ tickAt' = now
    /\ visited' = <<>>
    /\ notified' = <<>>
    /\ tickTasks' = IF tasksOk THEN ActiveTasksRead(tasks) ELSE <<>>
    /\ tickSettings' = IF tasksOk THEN SettingsRead(settings, settingsOk) ELSE <<>>
    /\ todo' = DOMAIN tickTasks'
    /\ schedPc' = IF todo' = {} THEN "waiting" ELSE "ticking"
    /\ UNCHANGED <<closed, tickDue>>
TickBeginReadsOnce(tasksOk, settingsOk) ==
    /\ schedPc = "waiting"
    /\ tickPending
    /\ tickPending' = FALSE
    /\ tickAt' = now
    /\ visited' = <<>>
    /\ notified' = <<>>
    /\ tickTasks' = IF tickAt # -1 THEN tickTasks
                    ELSE IF tasksOk THEN ActiveTasksRead(tasks) ELSE <<>>
    /\ tickSettings' = IF tickAt # -1 THEN tickSettings
                       ELSE IF tasksOk THEN SettingsRead(settings, settingsOk) ELSE <<>>
    /\ todo' = DOMAIN tickTasks'
    /\ schedPc' = IF todo' = {} THEN "waiting" ELSE "ticking"
    /\ UNCHANGED <<closed, tickDue>>
TickBegin(tasksOk, settingsOk) ==
    /\ schedPc = "waiting"
    /\ tickPending
    /\ tickPending' = FALSE
    /\ tickAt' = now
    /\ visited' = <<>>
    /\ notified' = <<>>
    /\ tickTasks' = IF tasksOk THEN ActiveTasksRead(tasks) ELSE <<>>
    /\ tickSettings' = IF tasksOk THEN SettingsRead(settings, settingsOk) ELSE <<>>
    /\ todo' = DOMAIN tickTasks'
    /\ schedPc' = IF todo' = {} THEN "waiting" ELSE "ticking"
    /\ UNCHANGED <<closed, tickDue>>

\* sendReminders: the chats the loop still visits after a send that returned
\* err; the error is logged and the loop goes on.
StopsAfterFailedSend(rest, err) == IF err THEN {} ELSE rest
AfterSend(rest, err) == rest

\* One iteration of the range loop over the tasks map, for any chat not yet
\* visited (Go ranges over a map in no fixed order).
TickChat(chat, apiOk) ==
    /\ schedPc = "ticking"
    /\ chat \in todo
    /\ visited' = (chat :> now) @@ visited
    /\ LET resolved == ResolveSettings(tickSettings, chat)
           call == SendDailyReminderWithTasks(chat, tickTasks[chat], now, apiOk)
       IN IF /\ Len(tickTasks[chat]) # 0
             /\ shouldSendReminderForUser(resolved[1], resolved[2], now)
          THEN /\ notified' = Append(notified, call)
               /\ todo' = AfterSend(todo \ {chat}, call.err)
          ELSE /\ notified' = notified
               /\ todo' = todo \ {chat}
    /\ schedPc' = IF todo' = {} THEN "waiting" ELSE "ticking"
    /\ UNCHANGED <<closed, tickDue, tickPending, tickAt, tickTasks, tickSettings>>

\* The channels whose closing ends Scheduler.run, and CleanupScheduler.run.
ContextOnly == {"ctx.Done"}
SchedulerDone == {"ctx.Done", "stopChan"}
CleanupDone == {"ctx.Done", "cleanup.stopChan"}

\* main's cancel(), Scheduler.Stop or CleanupScheduler.Stop closes a channel.
Close(channel) ==
    /\ channel \notin closed
    /\ closed' = closed \cup {channel}
    /\ UNCHANGED <<schedPc, tickDue, tickPending, tickAt, tickTasks, tickSettings,
                   todo, visited, notified>>

\* run: select takes the ctx.Done() or the stopChan case and returns; the
\* deferred ticker.Stop runs.  With a tick in ticker.C as well, select takes
\* any of the ready cases.
SchedulerReturn ==
    /\ schedPc = "waiting"
    /\ closed \cap SchedulerDone # {}
    /\ schedPc' = "stopped"
    /\ tickDue' = FALSE
    /\ UNCHANGED <<closed, tickPending, tickAt, tickTasks, tickSettings, todo,
                   visited, notified>>

(* ------------------------- retention sweeper --------------------------- *)

\* The message age the sweeper is constructed with, in minutes.
messageAge == 1

\* TrackBotMessage: the tracking record of a message sent now.
TrackBotMessage(chat, ok) ==
    /\ nextMid <= MaxMessages
    /\ IF ok
       THEN /\ botMessages' =
                  (nextMid :> [_id |-> nextMid, chat_id |-> chat,
                               message_id |-> 100 + nextMid, sent_at |-> now])
                  @@ botMessages
            /\ nextMid' = nextMid + 1
       ELSE UNCHANGED <<botMessages, nextMid>>
    /\ UNCHANGED <<cleanPc, cleanPending, sweepCutoff, sweepList, sweepLog,
                   sweepOld, sweepMid, sweepStoreOk, prevSweep>>

\* GetMessagesOlderThan: the records with sent_at before olderThan.
GetMessagesOlderThan(coll, olderThan) ==
    LET ids == InOrder({id \in DOMAIN coll : coll[id].sent_at < olderThan})
    IN [i \in 1..Len(ids) |-> coll[ids[i]]]

\* DeleteBotMessage: the record with this _id is removed.
DeleteBotMessage(coll, id) == [i \in DOMAIN coll \ {id} |-> coll[i]]

\* cleanupOldMessages: cutoffTime := time.Now().Add(-c.messageAge)
CutoffIsNow(t) == t
CutoffTime(t) == t - messageAge

\* cleanupOldMessages: whether the record is removed after DeleteMessage
\* returned deleteErr.
UntrackOnlyDeleted(deleteErr) == ~deleteErr
UntrackAfterDelete(deleteErr) == TRUE

\* cleanupOldMessages: the id DeleteBotMessage is called with.
UntracksMessageID(msg) == msg.message_id
UntrackKey(msg) == msg._id

\* CleanupScheduler.Start: the goroutine is launched.
StartsWaiting ==
    /\ cleanPc = "init"
    /\ cleanPc' = "waiting"
    /\ UNCHANGED <<botMessages, nextMid, cleanPending, sweepCutoff, sweepList,
                   sweepLog, sweepOld, sweepMid, sweepStoreOk, prevSweep>>
CleanupStart ==
    /\ cleanPc = "init"
    /\ cleanPc' = "starting"
    /\ UNCHANGED <<botMessages, nextMid, cleanPending, sweepCutoff, sweepList,
                   sweepLog, sweepOld, sweepMid, sweepStoreOk, prevSweep>>

\* The cleanup ticker fires; its channel holds one tick.
CleanupTickerFire ==
    /\ cleanPc \in {"waiting", "sweeping"}
    /\ ~cleanPending
    /\ cleanPending' = TRUE
    /\ UNCHANGED <<botMessages, nextMid, cleanPc, sweepCutoff, sweepList,
                   sweepLog, sweepOld, sweepMid, sweepStoreOk, prevSweep>>

\* cleanupOldMessages begins: at once after Start, or on a tick.  It computes
\* the cutoff and queries the store.
SweepBeginReturnsOnError(queryOk) ==
    /\ \/ cleanPc = "starting" /\ UNCHANGED cleanPending
       \/ cleanPc = "waiting" /\ cleanPending /\ cleanPending' = FALSE
    /\ sweepCutoff' = CutoffTime(now)
    /\ sweepList' = IF queryOk THEN GetMessagesOlderThan(botMessages, sweepCutoff')
                    ELSE <<>>
    /\ cleanPc' = IF ~queryOk THEN "stopped"
                  ELSE IF Len(sweepList') = 0 THEN "waiting" ELSE "sweeping"
    /\ sweepLog' = <<>>
    /\ sweepOld' = {id \in DOMAIN botMessages :
                       botMessages[id].sent_at < now - messageAge}
    /\ sweepMid' = nextMid
    /\ sweepStoreOk' = queryOk
    /\ prevSweep' = IF sweepCutoff = -1 THEN None
                    ELSE [cutoff |-> sweepCutoff, storeOk |-> sweepStoreOk,
                          calls |-> Len(sweepLog), mid |-> sweepMid]
    /\ UNCHANGED <<botMessages, nextMid>>
SweepBegin(queryOk) ==
    /\ \/ cleanPc = "starting" /\ UNCHANGED cleanPending
       \/ cleanPc = "waiting" /\ cleanPending /\ cleanPending' = FALSE
    /\ sweepCutoff' = CutoffTime(now)
    /\ sweepList' = IF queryOk THEN GetMessagesOlderThan(botMessages, sweepCutoff')
                    ELSE <<>>
    /\ cleanPc' = IF Len(sweepList') = 0 THEN "waiting" ELSE "sweeping"
    /\ sweepLog' = <<>>
    /\ sweepOld' = {id \in DOMAIN botMessages :
                       botMessages[id].sent_at < now - messageAge}
    /\ sweepMid' = nextMid
    /\ sweepStoreOk' = queryOk
    /\ prevSweep' = IF sweepCutoff = -1 THEN None
                    ELSE [cutoff |-> sweepCutoff, storeOk |-> sweepStoreOk,
                          calls |-> Len(sweepLog), mid |-> sweepMid]
    /\ UNCHANGED <<botMessages, nextMid>>

\* One iteration of the loop over the messages found: DeleteMessage, then
\* DeleteBotMessage whatever DeleteMessage returned.
SweepMessage(deleteOk, untrackOk) ==
    /\ cleanPc = "sweeping"
    /\ LET msg == Head(sweepList)
           untrack == UntrackAfterDelete(~deleteOk)
           key == UntrackKey(msg)
       IN /\ botMessages' = IF untrack /\ untrackOk
                            THEN DeleteBotMessage(botMessages, key)
                            ELSE botMessages
          /\ sweepLog' = Append(sweepLog,
                                [id |-> msg._id, chat |-> msg.chat_id,
                                 message |-> msg.message_id,
                                 deleteErr |-> ~deleteOk,
                                 untracked |-> untrack,
                                 untrackErr |-> untrack /\
                                    (~untrackOk \/ key \notin DOMAIN botMessages)])
          /\ sweepStoreOk' = (sweepStoreOk /\ (untrack => untrackOk))
    /\ sweepList' = Tail(sweepList)
    /\ cleanPc' = IF Len(sweepList') = 0 THEN "waiting" ELSE "sweeping"
    /\ UNCHANGED <<nextMid, cleanPending, sweepCutoff, sweepOld, sweepMid, prevSweep>>

\* CleanupScheduler.run: select takes the ctx.Done() or the stopChan case
\* and returns.
CleanupReturn ==
    /\ cleanPc = "waiting"
    /\ closed \cap CleanupDone # {}
    /\ cleanPc' = "stopped"
    /\ UNCHANGED <<botMessages, nextMid, cleanPending, sweepCutoff, sweepList,
                   sweepLog, sweepOld, sweepMid, sweepStoreOk, prevSweep>>

(* ------------------------------- clock --------------------------------- *)

\* A minute passes; the ticker of a running scheduler has fired in it.
Advance ==
    /\ \E s \in StartTimes : s <= now /\ now < s + MaxElapsed
    /\ ~(TickerRunning /\ tickDue)
    /\ now' = now + 1
    /\ tickDue' = TickerRunning
    /\ UNCHANGED <<closed, schedPc, tickPending, tickAt, tickTasks, tickSettings,
                   todo, visited, notified>>

\* A minute passes while the scheduler waits in select with no tick left to
\* handle; the days are identified, midnight follows 23:59.
AdvanceDay ==
    /\ schedPc = "waiting"
    /\ ~tickDue
    /\ ~tickPending
    /\ now' = (now + 1) % 1440
    /\ tickDue' = TRUE
    /\ UNCHANGED <<closed, schedPc, tickPending, tickAt, tickTasks, tickSettings,
                   todo, visited, notified>>

(* ---------------------------- bot commands ----------------------------- *)

\* First arguments of /setreminder: a valid time, and texts with one digit
\* of hour, hour 24, minute 60, no colon, no minute.
T900 == <<"9", ":", "0", "0">>
T2400 == <<"2", "4", ":", "0", "0">>
T0960 == <<"0", "9", ":", "6", "0">>
TNoColon == <<"0", "9", "0", "0">>
TNoMinute == <<"0", "9", ":">>
TimeArgs == {T0900, T900, T2400, T0960, TNoColon, TNoMinute}

DigitChars == {Digit(d) : d \in 0..9}

DigitValue(ch) == CHOOSE d \in 0..9 : Digit(d) = ch

\* strings.Split(s, ":")
RECURSIVE Split(_)
Split(s) ==
    IF \A i \in 1..Len(s) : s[i] # ":"
    THEN <<s>>
    ELSE LET k == CHOOSE i \in 1..Len(s) :
                     s[i] = ":" /\ \A j \in 1..(i - 1) : s[j] # ":"
         IN <<SubSeq(s, 1, k - 1)>> \o Split(SubSeq(s, k + 1, Len(s)))

RECURSIVE DecimalValue(_)
DecimalValue(s) ==
    IF s = <<>> THEN 0
    ELSE 10 * DecimalValue(SubSeq(s, 1, Len(s) - 1)) + DigitValue(s[Len(s)])

\* strconv.Atoi: an optional sign, then one or more decimal digits.
Atoi(s) ==
    LET signed == s # <<>> /\ s[1] \in {"+", "-"}
        digits == IF signed THEN Tail(s) ELSE s
    IN IF digits = <<>> \/ \E i \in 1..Len(digits) : digits[i] \notin DigitChars
       THEN [err |-> TRUE, value |-> 0]
       ELSE [err |-> FALSE,
             value |-> IF signed /\ s[1] = "-" THEN 0 - DecimalValue(digits)
                       ELSE DecimalValue(digits)]

isValidTimeFormat(timeStr) ==
    LET parts == Split(timeStr)
    IN IF Len(parts) # 2 THEN FALSE
       ELSE LET hour == Atoi(parts[1])
                minute == Atoi(parts[2])
            IN /\ ~(hour.err \/ hour.value < 0 \/ hour.value > 23)
               /\ ~(minute.err \/ minute.value < 0 \/ minute.value > 59)

isValidTimezone(tz) == ~LoadLocation(tz).err

\* What handleSetReminder answers to nargs arguments, the first timeArg and
\* the second zoneArg, when the store answers ok.
SetReminderReply(nargs, timeArg, zoneArg, ok) ==
    IF nargs = 0 THEN "usage"
    ELSE IF ~isValidTimeFormat(timeArg) THEN "invalid time"
    ELSE IF nargs > 1 /\ ~isValidTimezone(zoneArg) THEN "invalid timezone"
    ELSE IF ~ok THEN "failed"
    ELSE "set"

\* Bot.handleSetReminder for a /setreminder message of user in chat.
handleSetReminder(chat, user, nargs, timeArg, zoneArg, ok) ==
    LET reply == SetReminderReply(nargs, timeArg, zoneArg, ok)
        timezone == IF nargs > 1 THEN zoneArg ELSE "UTC"
    IN /\ IF reply \in {"failed", "set"}
          THEN SetUserSettings(chat, user, timeArg, timezone, ok,
                               IF ok THEN NoError ELSE ErrStore)
          ELSE UNCHANGED settingsVars
       /\ last' = <<"handleSetReminder", chat, reply>>
       /\ UNCHANGED <<trip, reminded>>

\* Arguments of /done and /delete: task numbers, one of them after a space,
\* zero, a word, nothing.
NumberArgs == {<<"1">>, <<" ", "2">>, <<"0">>, <<"x">>, <<>>}

\* The answers of the store to the two calls of a command: both answer, the
\* read fails, the update fails.
StoreAnswers == {<<TRUE, TRUE>>, <<FALSE, TRUE>>, <<TRUE, FALSE>>}

\* strings.TrimSpace
RECURSIVE TrimSpace(_)
TrimSpace(s) ==
    IF s = <<>> THEN s
    ELSE IF s[1] = " " THEN TrimSpace(Tail(s))
    ELSE IF s[Len(s)] = " " THEN TrimSpace(SubSeq(s, 1, Len(s) - 1))
    ELSE s

parseTaskNumber(arg) ==
    IF TrimSpace(arg) = <<>> THEN [err |-> TRUE, value |-> 0]
    ELSE Atoi(TrimSpace(arg))

\* What a command with a task number answers, the chat's list having n tasks,
\* when GetTasksByChatID answers listOk and the update answers updateOk.
NumberReply(arg, n, listOk, updateOk) ==
    IF parseTaskNumber(arg).err THEN "usage"
    ELSE IF ~listOk THEN "failed to get tasks"
    ELSE IF parseTaskNumber(arg).value < 1 \/ parseTaskNumber(arg).value > n
    THEN "invalid task number"
    ELSE IF ~updateOk THEN "failed"
    ELSE "ok"

\* handleDelete: the storage call made for the task picked from the list.
DeleteCommandRemoves(id, ok, err) == DeleteTask(id, ok, err)
DeleteCommandCall(id, ok, err) == CloseTask(id, ok, err)

\* Bot.handleDelete for a /delete message in chat.
handleDelete(chat, arg, listOk, updateOk) ==
    LET list == GetTasksByChatID(tasks, chat)
        reply == NumberReply(arg, Len(list), listOk, updateOk)
    IN /\ IF reply \in {"failed", "ok"}
          THEN DeleteCommandCall(list[parseTaskNumber(arg).value], updateOk,
                                 IF updateOk THEN NoError ELSE ErrStore)
          ELSE UNCHANGED taskVars
       /\ last' = <<"handleDelete", chat, reply>>
       /\ UNCHANGED <<trip, reminded>>

\* Bot.handleDone for a /done message in chat.
handleDone(chat, arg, listOk, updateOk) ==
    LET list == GetTasksByChatID(tasks, chat)
        reply == NumberReply(arg, Len(list), listOk, updateOk)
    IN /\ IF reply \in {"failed", "ok"}
          THEN CompleteTask(list[parseTaskNumber(arg).value], updateOk,
                            IF updateOk THEN NoError ELSE ErrStore)
          ELSE UNCHANGED taskVars
       /\ last' = <<"handleDone", chat, reply>>
       /\ UNCHANGED <<trip, reminded>>

\* Callback data of a button press: "complete_" and the hex id of a task,
\* of any chat or of none, "complete_" and text that is no hex id, and data
\* of another kind.
CallbackData ==
    {<<"complete_", Digit(id)>> : id \in 1..MaxTasks}
       \cup {<<"complete_", "zz">>, <<"page_", "1">>}

\* primitive.ObjectIDFromHex: the id the text stands for, or an error.
ObjectIDFromHex(hex) ==
    IF hex \in DigitChars THEN [err |-> FALSE, value |-> DigitValue(hex)]
    ELSE [err |-> TRUE, value |-> 0]

\* handleCallbackQuery: the loop that looks for taskID in the chat's list.
FindsAnyStoredTask(list, taskID) == taskID \in DOMAIN tasks
FindTask(list, taskID) == \E k \in 1..Len(list) : list[k] = taskID

\* Bot.handleCallbackQuery for a button pressed in chat: the task is
\* looked up in the chat's list and toggled.
handleCallbackQuery(chat, data, listOk, updateOk) ==
    LET list == GetTasksByChatID(tasks, chat)
        taskID == ObjectIDFromHex(data[2]).value
        reply == IF data[1] # "complete_" THEN "ignored"
                 ELSE IF ObjectIDFromHex(data[2]).err THEN "invalid id"
                 ELSE IF ~listOk THEN "failed to get tasks"
                 ELSE IF ~FindTask(list, taskID) THEN "not found"
                 ELSE IF ~updateOk THEN "failed"
                 ELSE "ok"
        err == IF updateOk THEN NoError ELSE ErrStore
    IN /\ IF reply \in {"failed", "ok"}
          THEN IF TaskWithID(tasks[taskID]).Status = TaskStatusCompletedToday
               THEN ReactivateTask(taskID, updateOk, err)
               ELSE CompleteTask(taskID, updateOk, err)
          ELSE UNCHANGED taskVars
       /\ last' = <<"handleCallbackQuery", chat, reply, taskID>>
       /\ UNCHANGED <<trip, reminded>>

(* ---------------------------- specifications --------------------------- *)

\* The database outlives the process: at start it is empty or holds a
\* document of the first version of the program.
Init ==
    /\ now \in StartTimes
    /\ \/ tasks = <<>> /\ nextId = 1
       \/ tasks = (1 :> LegacyTask(1, 1)) /\ nextId = 2
    /\ settings = <<>>
    /\ nextSid = 1
    /\ closed = {}
    /\ schedPc = "init"
    /\ tickDue = FALSE
    /\ tickPending = FALSE
    /\ tickAt = -1
    /\ tickTasks = <<>>
    /\ tickSettings = <<>>
    /\ todo = {}
    /\ visited = <<>>
    /\ notified = <<>>
    /\ botMessages = <<>>
    /\ nextMid = 1
    /\ cleanPc = "init"
    /\ cleanPending = FALSE
    /\ sweepCutoff = -1
    /\ sweepList = <<>>
    /\ sweepLog = <<>>
    /\ sweepOld = {}
    /\ sweepMid = 1
    /\ sweepStoreOk = TRUE
    /\ prevSweep = None
    /\ last = <<"none", 0, NoError>>
    /\ trip = None
    /\ reminded = <<>>

TaskIds == 1..MaxTasks
Errors == {NoError, ErrNotFound, ErrStore}

\* The tasks that were closed from CompletedToday and are still closed, and
\* the tasks that have been CompletedToday since they were created or last
\* reactivated.
ClosedFromCompleted == IF last[1] = "reached" THEN last[2] ELSE {}
ReachedCompleted == IF last[1] = "reached" THEN last[3] ELSE {}

\* The two sets after call op on task id has returned err.
ReachedAfter(op, id, err) ==
    IF err # NoError \/ op = "AddTask"
    THEN <<"reached", ClosedFromCompleted, ReachedCompleted>>
    ELSE IF op = "CompleteTask"
    THEN <<"reached", ClosedFromCompleted \ {id}, ReachedCompleted \cup {id}>>
    ELSE IF op \in {"ReactivateTask", "DeleteTask"}
    THEN <<"reached", ClosedFromCompleted \ {id}, ReachedCompleted \ {id}>>
    ELSE IF "status" \in DOMAIN tasks[id] /\ tasks[id].status = TaskStatusClosed
    THEN <<"reached", ClosedFromCompleted, ReachedCompleted>>
    ELSE IF "status" \in DOMAIN tasks[id] /\ tasks[id].status = TaskStatusCompletedToday
    THEN <<"reached", ClosedFromCompleted \cup {id}, ReachedCompleted>>
    ELSE <<"reached", ClosedFromCompleted \ {id}, ReachedCompleted>>

\* The tasks deleted so far, each with the status it had.
Deleted == IF Len(last) = 4 THEN last[4] ELSE {}

\* The last call, named "missing" when its id was not in the store, with
\* what it returned and the tasks deleted so far.
DeleteObserved(op, id, err) ==
    IF op # "AddTask" /\ id \notin DOMAIN tasks
    THEN <<"missing", id, err, Deleted>>
    ELSE IF op = "DeleteTask" /\ err = NoError
    THEN <<op, id, err,
           Deleted \cup {<<id, IF "status" \in DOMAIN tasks[id]
                               THEN tasks[id].status ELSE "none">>}>>
    ELSE <<op, id, err, Deleted>>

\* What a step of call op on task id, returning err, does to the history
\* variables: keep none, keep what the last call on an id that is not in
\* the store returned, keep the last task completed as it was before, or
\* keep the round trip.
Observe(history, op, id, err) ==
    /\ last' = IF history = "missing" /\ op # "AddTask" /\ id \notin DOMAIN tasks
               THEN <<"missing", 0, err>>
               ELSE IF history = "complete" /\ op = "CompleteTask" /\ err = NoError
               THEN <<"CompleteTask", id, tasks[id]>>
               ELSE IF history = "reached"
               THEN ReachedAfter(op, id, err)
               ELSE IF history = "delete"
               THEN DeleteObserved(op, id, err)
               ELSE last
    /\ trip' = IF history = "trip" /\ err = NoError /\ op # "AddTask"
               THEN TripAfter(op, id, tasks[id])
               ELSE trip
    /\ UNCHANGED reminded

\* One call of the task store from any caller.
StoreCall(history) ==
    /\ \/ \E c \in Chats, u \in Users, d \in Descriptions, ok \in BOOLEAN, err \in Errors :
             AddTask(c, u, d, ok, err) /\ Observe(history, "AddTask", nextId, err)
       \/ \E id \in TaskIds, ok \in BOOLEAN, err \in Errors :
             CompleteTask(id, ok, err) /\ Observe(history, "CompleteTask", id, err)
       \/ \E id \in TaskIds, ok \in BOOLEAN, err \in Errors :
             ReactivateTask(id, ok, err) /\ Observe(history, "ReactivateTask", id, err)
       \/ \E id \in TaskIds, ok \in BOOLEAN, err \in Errors :
             CloseTask(id, ok, err) /\ Observe(history, "CloseTask", id, err)
       \/ \E id \in TaskIds, ok \in BOOLEAN, err \in Errors :
             DeleteTask(id, ok, err) /\ Observe(history, "DeleteTask", id, err)
    /\ UNCHANGED <<now, settingsVars, schedVars, sweepVars>>

\* One SetUserSettings call from any caller.
SettingsCall ==
    /\ \E c \in Chats, u \in Users, rt \in ReminderTimes, tz \in ZoneNames,
          ok \in BOOLEAN, err \in Errors :
          SetUserSettings(c, u, rt, tz, ok, err)
    /\ UNCHANGED <<now, taskVars, schedVars, sweepVars, histVars>>

Tick == Advance /\ UNCHANGED <<taskVars, settingsVars, sweepVars, histVars>>

\* The task store under any sequence of calls.
NextStore == StoreCall("none") \/ Tick

SpecStore == Init /\ [][NextStore]_vars

\* The same, with the round-trip history.
NextTrip == StoreCall("trip") \/ Tick

SpecTrip == Init /\ [][NextTrip]_vars

\* The task store under any sequence of calls within one minute, with the
\* result of the last call on a missing id.
NextCalls == StoreCall("missing")

SpecCalls == Init /\ [][NextCalls]_vars

\* The task store under any sequence of calls, with the tasks that have
\* been CompletedToday and those closed from it.
NextReached == StoreCall("reached") \/ Tick

SpecReached == Init /\ [][NextReached]_vars

\* The task store under any sequence of calls within one minute, with the
\* last call and the tasks deleted so far.
NextDelete == StoreCall("delete")

SpecDelete == Init /\ [][NextDelete]_vars

\* AddTask called with any Task value at any time, with the last value
\* stored and the id it was given.
NextAdd ==
    \/ /\ \E task \in TaskValues, ok \in BOOLEAN, err \in Errors :
             /\ AddTaskValue(task, ok, err)
             /\ last' = IF err = NoError THEN <<"AddTask", nextId, task>> ELSE last
       /\ UNCHANGED <<now, settingsVars, schedVars, sweepVars, trip, reminded>>
    \/ Tick

SpecAdd == Init /\ [][NextAdd]_vars

\* Tasks added in the minute the process starts, then completed and
\* reactivated at any time, with the last task completed as it was before
\* the call.
NextComplete ==
    \/ /\ now \in StartTimes
       /\ \E c \in Chats, u \in Users, d \in Descriptions :
             AddTask(c, u, d, TRUE, NoError) /\ Observe("complete", "AddTask", nextId, NoError)
       /\ UNCHANGED <<now, settingsVars, schedVars, sweepVars>>
    \/ /\ \E id \in TaskIds, ok \in BOOLEAN, err \in Errors :
             CompleteTask(id, ok, err) /\ Observe("complete", "CompleteTask", id, err)
       /\ UNCHANGED <<now, settingsVars, schedVars, sweepVars>>
    \/ /\ \E id \in TaskIds :
             /\ ReactivateTask(id, TRUE, NoError)
             /\ Observe("complete", "ReactivateTask", id, NoError)
       /\ UNCHANGED <<now, settingsVars, schedVars, sweepVars>>
    \/ Tick

SpecComplete == Init /\ [][NextComplete]_vars

\* The settings store under any sequence of calls.
NextSettings == SettingsCall \/ Tick

SpecSettings == Init /\ [][NextSettings]_vars

\* The /setreminder command, from any chat with any arguments.
NextSetReminder ==
    \/ /\ \E c \in Chats, u \in Users, ok \in BOOLEAN :
             \/ handleSetReminder(c, u, 0, T0900, "UTC", ok)
             \/ \E timeArg \in TimeArgs : handleSetReminder(c, u, 1, timeArg, "UTC", ok)
             \/ \E timeArg \in TimeArgs, zoneArg \in ZoneNames :
                   handleSetReminder(c, u, 2, timeArg, zoneArg, ok)
       /\ UNCHANGED <<now, taskVars, schedVars, sweepVars>>
    \/ Tick

SpecSetReminder == Init /\ [][NextSetReminder]_vars

\* The /add, /done and /delete commands, from any chat with any argument,
\* within one minute.
NextCommands ==
    \/ /\ \E c \in Chats, u \in Users, d \in Descriptions, ok \in BOOLEAN :
             AddTask(c, u, d, ok, IF ok THEN NoError ELSE ErrStore)
       /\ UNCHANGED <<now, settingsVars, schedVars, sweepVars, histVars>>
    \/ /\ \E c \in Chats, arg \in NumberArgs, ok \in StoreAnswers :
             handleDone(c, arg, ok[1], ok[2])
       /\ UNCHANGED <<now, settingsVars, schedVars, sweepVars>>
    \/ /\ \E c \in Chats, arg \in NumberArgs, ok \in StoreAnswers :
             handleDelete(c, arg, ok[1], ok[2])
       /\ UNCHANGED <<now, settingsVars, schedVars, sweepVars>>

SpecCommands == Init /\ [][NextCommands]_vars

\* Bot.Start: the updates of any chat, handled one at a time within the
\* minute 08:59: /add, /done, /delete, /setreminder and button presses.
NextHandlers ==
    \/ /\ now = 539
       /\ \E c \in Chats, u \in Users, d \in Descriptions, ok \in BOOLEAN :
             /\ AddTask(c, u, d, ok, IF ok THEN NoError ELSE ErrStore)
             /\ last' = <<"handleAdd", c, IF ok THEN "ok" ELSE "failed">>
       /\ UNCHANGED <<now, settingsVars, schedVars, sweepVars, trip, reminded>>
    \/ /\ now = 539
       /\ \E c \in Chats, arg \in {<<"1">>, <<" ", "2">>, <<"0">>}, ok \in StoreAnswers :
             handleDone(c, arg, ok[1], ok[2])
       /\ UNCHANGED <<now, settingsVars, schedVars, sweepVars>>
    \/ /\ now = 539
       /\ \E c \in Chats, arg \in {<<"1">>, <<" ", "2">>, <<"0">>}, ok \in StoreAnswers :
             handleDelete(c, arg, ok[1], ok[2])
       /\ UNCHANGED <<now, settingsVars, schedVars, sweepVars>>
    \/ /\ now = 539
       /\ handleSetReminder(1, 7, 1, T0901, "UTC", TRUE)
       /\ UNCHANGED <<now, taskVars, schedVars, sweepVars>>
    \/ /\ now = 539
       /\ \E c \in Chats, data \in CallbackData, ok \in StoreAnswers :
             handleCallbackQuery(c, data, ok[1], ok[2])
       /\ UNCHANGED <<now, settingsVars, schedVars, sweepVars>>

SpecHandlers == Init /\ [][NextHandlers]_vars

\* The reminder history after a TickChat step for chat: a call appended to
\* notified is the chat's next reminder.
RemindedAfter(chat) ==
    IF Len(notified') > Len(notified)
    THEN (chat :> [at |-> now,
                   n |-> IF chat \in DOMAIN reminded THEN reminded[chat].n + 1 ELSE 1])
         @@ reminded
    ELSE reminded

\* The scheduler over stores that do not change once it runs, with a store
\* and a notifier that answer, and with each chat's last reminder kept.
NextDaily ==
    \/ schedPc = "init" /\
          \/ \E c \in Chats, u \in Users, d \in Descriptions :
                /\ AddTask(c, u, d, TRUE, NoError)
                /\ UNCHANGED <<now, settingsVars, schedVars, sweepVars, histVars>>
          \/ \E c \in Chats, u \in Users, rt \in ReminderTimes, tz \in ZoneNames :
                /\ SetUserSettings(c, u, rt, tz, TRUE, NoError)
                /\ UNCHANGED <<now, taskVars, schedVars, sweepVars, histVars>>
    \/ Start /\ UNCHANGED <<now, taskVars, settingsVars, sweepVars, histVars>>
    \/ TickerFire /\ UNCHANGED <<now, taskVars, settingsVars, sweepVars, histVars>>
    \/ TickBegin(TRUE, TRUE)
          /\ UNCHANGED <<now, taskVars, settingsVars, sweepVars, histVars>>
    \/ \E c \in Chats :
          /\ TickChat(c, TRUE)
          /\ reminded' = RemindedAfter(c)
          /\ UNCHANGED <<now, taskVars, settingsVars, sweepVars, last, trip>>
    \/ schedPc # "init" /\ Tick

SpecDaily == Init /\ [][NextDaily]_vars

\* The scheduler running day after day with a tick handled in every minute,
\* a store and a notifier that answer, and the settings chat 1 stored with
\* /setreminder before it started.
LiveSetup ==
    /\ schedPc = "init"
    /\ \E timeArg \in TimeArgs : handleSetReminder(1, 7, 1, timeArg, "UTC", TRUE)
    /\ UNCHANGED <<now, taskVars, schedVars, sweepVars>>

LiveStart == Start /\ UNCHANGED <<now, taskVars, settingsVars, sweepVars, histVars>>

LiveTickerFire ==
    TickerFire /\ UNCHANGED <<now, taskVars, settingsVars, sweepVars, histVars>>

LiveTickBegin ==
    TickBegin(TRUE, TRUE) /\ UNCHANGED <<now, taskVars, settingsVars, sweepVars, histVars>>

LiveTickChat ==
    \E c \in Chats :
       /\ TickChat(c, TRUE)
       /\ reminded' = IF Len(notified') > Len(notified)
                      THEN (c :> [at |-> now, n |-> 1]) @@ reminded
                      ELSE reminded
       /\ UNCHANGED <<now, taskVars, settingsVars, sweepVars, last, trip>>

LiveAdvance ==
    AdvanceDay /\ UNCHANGED <<taskVars, settingsVars, sweepVars, histVars>>

NextLive ==
    \/ LiveSetup
    \/ LiveStart
    \/ LiveTickerFire
    \/ LiveTickBegin
    \/ LiveTickChat
    \/ LiveAdvance

SpecLive ==
    /\ Init
    /\ [][NextLive]_vars
    /\ WF_vars(LiveStart)
    /\ WF_vars(LiveTickerFire)
    /\ WF_vars(LiveTickBegin)
    /\ WF_vars(LiveTickChat)
    /\ WF_vars(LiveAdvance)

\* The scheduler with the bot closing tasks while it runs, with a store and
\* a notifier that answer.
NextRace ==
    \/ /\ schedPc = "init"
       /\ \E c \in Chats, u \in Users, d \in Descriptions :
             AddTask(c, u, d, TRUE, NoError)
       /\ UNCHANGED <<now, settingsVars, schedVars, sweepVars, histVars>>
    \/ /\ \E id \in DOMAIN tasks : CloseTask(id, TRUE, NoError)
       /\ UNCHANGED <<now, settingsVars, schedVars, sweepVars, histVars>>
    \/ Start /\ UNCHANGED <<now, taskVars, settingsVars, sweepVars, histVars>>
    \/ TickerFire /\ UNCHANGED <<now, taskVars, settingsVars, sweepVars, histVars>>
    \/ TickBegin(TRUE, TRUE)
          /\ UNCHANGED <<now, taskVars, settingsVars, sweepVars, histVars>>
    \/ \E c \in Chats :
          TickChat(c, TRUE)
             /\ UNCHANGED <<now, taskVars, settingsVars, sweepVars, histVars>>
    \/ schedPc # "init" /\ Tick

SpecRace == Init /\ [][NextRace]_vars

\* The scheduler over tasks added and completed before Start and closed at
\* any time, with the tasks collection as it was when the tick began.
NextHanded ==
    \/ /\ schedPc = "init"
       /\ \/ \E c \in Chats, u \in Users, d \in Descriptions :
                AddTask(c, u, d, TRUE, NoError)
          \/ \E id \in DOMAIN tasks : CompleteTask(id, TRUE, NoError)
       /\ UNCHANGED <<now, settingsVars, schedVars, sweepVars, histVars>>
    \/ /\ \E id \in DOMAIN tasks : CloseTask(id, TRUE, NoError)
       /\ UNCHANGED <<now, settingsVars, schedVars, sweepVars, histVars>>
    \/ Start /\ UNCHANGED <<now, taskVars, settingsVars, sweepVars, histVars>>
    \/ TickerFire /\ UNCHANGED <<now, taskVars, settingsVars, sweepVars, histVars>>
    \/ /\ TickBegin(TRUE, TRUE)
       /\ last' = <<"sendReminders", now, tasks>>
       /\ UNCHANGED <<now, taskVars, settingsVars, sweepVars, trip, reminded>>
    \/ \E c \in Chats :
          TickChat(c, TRUE)
             /\ UNCHANGED <<now, taskVars, settingsVars, sweepVars, histVars>>
    \/ schedPc # "init" /\ Tick

SpecHanded == Init /\ [][NextHanded]_vars

\* What the stores hold for the scheduler: the chats with a task that is not
\* closed, and each chat's reminder time and zone or the defaults.
ChatsWithOpenTask(coll) ==
    {coll[id].chat_id :
        id \in {i \in DOMAIN coll : "status" \notin DOMAIN coll[i]
                                       \/ coll[i].status # TaskStatusClosed}}
ReminderTimeOfChat(coll) ==
    [c \in Chats |->
        IF SettingsOf(coll, c) = {} THEN <<defaultTime, defaultTimezone>>
        ELSE LET sid == CHOOSE i \in SettingsOf(coll, c) :
                            \A j \in SettingsOf(coll, c) : j <= i
             IN <<coll[sid].reminder_time, coll[sid].timezone>>]

\* The scheduler while tasks are closed and reopened and chat 1 sets its
\* reminder time to 09:01 between ticks, with what the stores held when the
\* tick began.
NextFresh ==
    \/ /\ schedPc = "init"
       /\ \E c \in Chats, u \in Users, d \in Descriptions :
             AddTask(c, u, d, TRUE, NoError)
       /\ UNCHANGED <<now, settingsVars, schedVars, sweepVars, histVars>>
    \/ /\ schedPc = "waiting"
       /\ \E id \in DOMAIN tasks :
             \/ CloseTask(id, TRUE, NoError)
             \/ ReactivateTask(id, TRUE, NoError)
       /\ UNCHANGED <<now, settingsVars, schedVars, sweepVars, histVars>>
    \/ /\ schedPc = "waiting"
       /\ SetUserSettings(1, 7, T0901, "UTC", TRUE, NoError)
       /\ UNCHANGED <<now, taskVars, schedVars, sweepVars, histVars>>
    \/ Start /\ UNCHANGED <<now, taskVars, settingsVars, sweepVars, histVars>>
    \/ TickerFire /\ UNCHANGED <<now, taskVars, settingsVars, sweepVars, histVars>>
    \/ /\ TickBegin(TRUE, TRUE)
       /\ last' = <<"sendReminders", ChatsWithOpenTask(tasks),
                    ReminderTimeOfChat(settings)>>
       /\ UNCHANGED <<now, taskVars, settingsVars, sweepVars, trip, reminded>>
    \/ \E c \in Chats :
          TickChat(c, TRUE)
             /\ UNCHANGED <<now, taskVars, settingsVars, sweepVars, histVars>>
    \/ schedPc # "init" /\ Tick

SpecFresh == Init /\ [][NextFresh]_vars

\* The ticks the ticker has delivered, the sendReminders calls begun and
\* those of them whose GetAllActiveTasks failed.
TickCounts ==
    IF last[1] = "sendReminders" THEN last[2] ELSE [fires |-> 0, runs |-> 0, misses |-> 0]

\* The scheduler over tasks and settings stored before Start, with a task
\* store and a notifier that may fail, counting ticks and sendReminders
\* calls.
NextFailed ==
    \/ /\ schedPc = "init"
       /\ \E c \in Chats, u \in Users, d \in Descriptions :
             AddTask(c, u, d, TRUE, NoError)
       /\ UNCHANGED <<now, settingsVars, schedVars, sweepVars, histVars>>
    \/ /\ schedPc = "init"
       /\ \E c \in Chats, rt \in ReminderTimes :
             SetUserSettings(c, 7, rt, "UTC", TRUE, NoError)
       /\ UNCHANGED <<now, taskVars, schedVars, sweepVars, histVars>>
    \/ Start /\ UNCHANGED <<now, taskVars, settingsVars, sweepVars, histVars>>
    \/ /\ TickerFire
       /\ last' = <<"sendReminders", [TickCounts EXCEPT !.fires = @ + 1], last[3]>>
       /\ UNCHANGED <<now, taskVars, settingsVars, sweepVars, trip, reminded>>
    \/ \E tasksOk \in BOOLEAN :
          /\ TickBegin(tasksOk, TRUE)
          /\ last' = <<"sendReminders",
                       [TickCounts EXCEPT !.runs = @ + 1,
                                          !.misses = IF tasksOk THEN @ ELSE @ + 1],
                       ReadError(tasksOk, TRUE)>>
          /\ UNCHANGED <<now, taskVars, settingsVars, sweepVars, trip, reminded>>
    \/ \E c \in Chats, apiOk \in BOOLEAN :
          TickChat(c, apiOk) /\ UNCHANGED <<now, taskVars, settingsVars, sweepVars, histVars>>
    \/ schedPc # "init" /\ Tick

SpecFailed == Init /\ [][NextFailed]_vars

\* SendDailyReminderWithTasks: what a reminder that was sent leaves in the
\* tracking store.
ReminderIsTracked(chat, sent) ==
    IF sent /\ nextMid <= MaxMessages
    THEN TrackBotMessage(chat, TRUE)
    ELSE UNCHANGED sweepVars
ReminderTracking(chat, sent) == UNCHANGED sweepVars

\* The two loops side by side, over the stores as the commands received
\* before they start left them, with a store that answers.
NextBoth ==
    \/ schedPc = "init" /\ cleanPc = "init" /\
          \/ \E u \in Users, d \in Descriptions :
                /\ AddTask(2, u, d, TRUE, NoError)
                /\ UNCHANGED <<now, settingsVars, schedVars, sweepVars, histVars>>
          \/ /\ SetUserSettings(2, 7, T0901, "UTC", TRUE, NoError)
             /\ UNCHANGED <<now, taskVars, schedVars, sweepVars, histVars>>
          \/ /\ TrackBotMessage(1, TRUE)
             /\ UNCHANGED <<now, taskVars, settingsVars, schedVars, histVars>>
    \/ Start /\ UNCHANGED <<now, taskVars, settingsVars, sweepVars, histVars>>
    \/ TickerFire /\ UNCHANGED <<now, taskVars, settingsVars, sweepVars, histVars>>
    \/ TickBegin(TRUE, TRUE)
             /\ UNCHANGED <<now, taskVars, settingsVars, sweepVars, histVars>>
    \/ \E c \in Chats :
          /\ TickChat(c, TRUE)
          /\ ReminderTracking(c, Len(notified') > Len(notified))
          /\ UNCHANGED <<now, taskVars, settingsVars, histVars>>
    \/ CleanupStart /\ UNCHANGED <<now, taskVars, settingsVars, schedVars, histVars>>
    \/ CleanupTickerFire
          /\ UNCHANGED <<now, taskVars, settingsVars, schedVars, histVars>>
    \/ SweepBegin(TRUE)
             /\ UNCHANGED <<now, taskVars, settingsVars, schedVars, histVars>>
    \/ \E deleteOk \in BOOLEAN :
          SweepMessage(deleteOk, TRUE)
             /\ UNCHANGED <<now, taskVars, settingsVars, schedVars, histVars>>
    \/ schedPc # "init" /\ cleanPc # "init" /\ Tick

SpecBoth == Init /\ [][NextBoth]_vars

\* The two loops from start to shutdown, over the messages tracked before
\* they start and with a store and a notifier that answer; main starts the
\* loops before it waits for the termination signal.
NextShutdown ==
    \/ Start /\ UNCHANGED <<now, taskVars, settingsVars, sweepVars, histVars>>
    \/ TickerFire /\ UNCHANGED <<now, taskVars, settingsVars, sweepVars, histVars>>
    \/ TickBegin(TRUE, TRUE)
          /\ UNCHANGED <<now, taskVars, settingsVars, sweepVars, histVars>>
    \/ \E c \in Chats :
          TickChat(c, TRUE)
             /\ UNCHANGED <<now, taskVars, settingsVars, sweepVars, histVars>>
    \/ \E channel \in SchedulerDone \cup CleanupDone :
          /\ schedPc # "init"
          /\ cleanPc # "init"
          /\ Close(channel)
          /\ UNCHANGED <<now, taskVars, settingsVars, sweepVars, histVars>>
    \/ SchedulerReturn
          /\ UNCHANGED <<now, taskVars, settingsVars, sweepVars, histVars>>
    \/ /\ cleanPc = "init"
       /\ TrackBotMessage(1, TRUE)
       /\ UNCHANGED <<now, taskVars, settingsVars, schedVars, histVars>>
    \/ CleanupStart /\ UNCHANGED <<now, taskVars, settingsVars, schedVars, histVars>>
    \/ CleanupTickerFire
          /\ UNCHANGED <<now, taskVars, settingsVars, schedVars, histVars>>
    \/ SweepBegin(TRUE)
          /\ UNCHANGED <<now, taskVars, settingsVars, schedVars, histVars>>
    \/ SweepMessage(TRUE, TRUE)
          /\ UNCHANGED <<now, taskVars, settingsVars, schedVars, histVars>>
    \/ CleanupReturn
          /\ UNCHANGED <<now, taskVars, settingsVars, schedVars, histVars>>
    \/ Tick

SpecShutdown == Init /\ [][NextShutdown]_vars

\* The steps of the two goroutines and of what surrounds them, from before
\* Start on: cancel() and the two Stop calls come once each, at any time.
SchedulerStep ==
    /\ \/ Start
       \/ TickBegin(TRUE, TRUE)
       \/ \E c \in Chats : TickChat(c, TRUE)
    /\ UNCHANGED <<now, taskVars, settingsVars, sweepVars, histVars>>

SchedulerExit ==
    SchedulerReturn /\ UNCHANGED <<now, taskVars, settingsVars, sweepVars, histVars>>

CleanupStep ==
    /\ \/ CleanupStart
       \/ SweepBegin(TRUE)
       \/ \E deleteOk \in BOOLEAN : SweepMessage(deleteOk, TRUE)
    /\ UNCHANGED <<now, taskVars, settingsVars, schedVars, histVars>>

CleanupExit ==
    CleanupReturn /\ UNCHANGED <<now, taskVars, settingsVars, schedVars, histVars>>

NextStop ==
    \/ SchedulerStep
    \/ SchedulerExit
    \/ CleanupStep
    \/ CleanupExit
    \/ TickerFire /\ UNCHANGED <<now, taskVars, settingsVars, sweepVars, histVars>>
    \/ CleanupTickerFire
          /\ UNCHANGED <<now, taskVars, settingsVars, schedVars, histVars>>
    \/ \E channel \in {"ctx.Done", "stopChan", "cleanup.stopChan"} :
          Close(channel) /\ UNCHANGED <<now, taskVars, settingsVars, sweepVars, histVars>>
    \/ /\ cleanPc = "init"
       /\ nextMid = 1
       /\ TrackBotMessage(1, TRUE)
       /\ UNCHANGED <<now, taskVars, settingsVars, schedVars, histVars>>
    \/ schedPc # "init" /\ cleanPc # "init" /\ Tick

\* Each goroutine goes on when it can, every call it makes returning; a
\* select with several ready cases takes one by uniform random choice, so a
\* closed channel that is ready again and again is taken in the end.
SpecStop ==
    /\ Init
    /\ [][NextStop]_vars
    /\ WF_vars(SchedulerStep)
    /\ SF_vars(SchedulerExit)
    /\ WF_vars(CleanupStep)
    /\ SF_vars(CleanupExit)

\* What each loop has been through: "none", "failed" once a call of it has
\* returned an error, "resumed" once it has begun a tick or sweep after that.
LoopHealth == IF last[1] = "errors" THEN last[3] ELSE [sched |-> "none", cleanup |-> "none"]

\* A step of loop: begins tells that it begins a tick or sweep, failed that
\* a call made in it returned an error.
NoteStep(loop, begins, failed) ==
    /\ last' = <<"errors", IF failed THEN loop ELSE "none",
                 [LoopHealth EXCEPT ![loop] =
                     IF begins /\ @ # "none" THEN "resumed"
                     ELSE IF failed /\ @ = "none" THEN "failed"
                     ELSE @]>>
    /\ UNCHANGED <<trip, reminded>>

\* The two loops from start to shutdown with stores and a notifier that may
\* fail in every call, over the messages tracked before they start; one of
\* cancel() and the two Stop calls comes at some time.
NextErrors ==
    \/ /\ Start
       /\ NoteStep("sched", FALSE, FALSE)
       /\ UNCHANGED <<now, taskVars, settingsVars, sweepVars>>
    \/ /\ TickerFire
       /\ NoteStep("sched", FALSE, FALSE)
       /\ UNCHANGED <<now, taskVars, settingsVars, sweepVars>>
    \/ \E tasksOk, settingsOk \in BOOLEAN :
          /\ TickBegin(tasksOk, settingsOk)
          /\ NoteStep("sched", TRUE, ~tasksOk \/ ~settingsOk)
          /\ UNCHANGED <<now, taskVars, settingsVars, sweepVars>>
    \/ \E c \in Chats, apiOk \in BOOLEAN :
          /\ TickChat(c, apiOk)
          /\ NoteStep("sched", FALSE, Len(notified') > Len(notified) /\ ~apiOk)
          /\ UNCHANGED <<now, taskVars, settingsVars, sweepVars>>
    \/ /\ SchedulerReturn
       /\ NoteStep("sched", FALSE, FALSE)
       /\ UNCHANGED <<now, taskVars, settingsVars, sweepVars>>
    \/ \E channel \in SchedulerDone \cup CleanupDone :
          /\ schedPc # "init"
          /\ cleanPc # "init"
          /\ closed = {}
          /\ Close(channel)
          /\ NoteStep("sched", FALSE, FALSE)
          /\ UNCHANGED <<now, taskVars, settingsVars, sweepVars>>
    \/ /\ cleanPc = "init"
       /\ nextMid = 1
       /\ TrackBotMessage(1, TRUE)
       /\ UNCHANGED <<now, taskVars, settingsVars, schedVars, histVars>>
    \/ /\ CleanupStart
       /\ NoteStep("cleanup", FALSE, FALSE)
       /\ UNCHANGED <<now, taskVars, settingsVars, schedVars>>
    \/ /\ CleanupTickerFire
       /\ NoteStep("cleanup", FALSE, FALSE)
       /\ UNCHANGED <<now, taskVars, settingsVars, schedVars>>
    \/ \E queryOk \in BOOLEAN :
          /\ SweepBegin(queryOk)
          /\ NoteStep("cleanup", TRUE, ~queryOk)
          /\ UNCHANGED <<now, taskVars, settingsVars, schedVars>>
    \/ \E deleteOk, untrackOk \in BOOLEAN :
          /\ SweepMessage(deleteOk, untrackOk)
          /\ NoteStep("cleanup", FALSE, ~deleteOk \/ ~untrackOk)
          /\ UNCHANGED <<now, taskVars, settingsVars, schedVars>>
    \/ /\ CleanupReturn
       /\ NoteStep("cleanup", FALSE, FALSE)
       /\ UNCHANGED <<now, taskVars, settingsVars, schedVars>>
    \/ schedPc # "init" /\ cleanPc # "init" /\ Tick

SpecErrors == Init /\ [][NextErrors]_vars

\* The timer events and the units of work of the two loops so far.
NoRuns == [timer |-> 0, work |-> 0]
Runs(loop) == IF last[1] = "run" THEN last[loop] ELSE NoRuns
CountRun(loop, field) ==
    /\ last' = <<"run",
                 IF loop = 2 THEN [Runs(2) EXCEPT ![field] = @ + 1] ELSE Runs(2),
                 IF loop = 3 THEN [Runs(3) EXCEPT ![field] = @ + 1] ELSE Runs(3)>>
    /\ UNCHANGED <<trip, reminded>>

\* The two loops from start on, with their timer events and units of work
\* counted, over the messages tracked before they start and with a store
\* and a notifier that answer.
NextLoops ==
    \/ Start /\ UNCHANGED <<now, taskVars, settingsVars, sweepVars, histVars>>
    \/ /\ TickerFire
       /\ CountRun(2, "timer")
       /\ UNCHANGED <<now, taskVars, settingsVars, sweepVars>>
    \/ /\ TickBegin(TRUE, TRUE)
       /\ CountRun(2, "work")
       /\ UNCHANGED <<now, taskVars, settingsVars, sweepVars>>
    \/ \E c \in Chats :
          TickChat(c, TRUE)
             /\ UNCHANGED <<now, taskVars, settingsVars, sweepVars, histVars>>
    \/ /\ cleanPc = "init"
       /\ TrackBotMessage(1, TRUE)
       /\ UNCHANGED <<now, taskVars, settingsVars, schedVars, histVars>>
    \/ CleanupStart /\ UNCHANGED <<now, taskVars, settingsVars, schedVars, histVars>>
    \/ /\ Runs(3).timer < MaxCleanupTicks
       /\ CleanupTickerFire
       /\ CountRun(3, "timer")
       /\ UNCHANGED <<now, taskVars, settingsVars, schedVars>>
    \/ /\ SweepBegin(TRUE)
       /\ CountRun(3, "work")
       /\ UNCHANGED <<now, taskVars, settingsVars, schedVars>>
    \/ SweepMessage(TRUE, TRUE)
          /\ UNCHANGED <<now, taskVars, settingsVars, schedVars, histVars>>
    \/ Tick

SpecLoops == Init /\ [][NextLoops]_vars

\* The scheduler over the stores as earlier runs and the commands received
\* before Start left them.
NextSched ==
    \/ schedPc = "init" /\
          \/ \E c \in Chats, u \in Users, d \in Descriptions :
                /\ AddTask(c, u, d, TRUE, NoError)
                /\ UNCHANGED <<now, settingsVars, schedVars, sweepVars, histVars>>
          \/ \E id \in TaskIds :
                /\ CloseTask(id, TRUE, NoError)
                /\ UNCHANGED <<now, settingsVars, schedVars, sweepVars, histVars>>
          \/ \E c \in Chats, u \in Users, rt \in ReminderTimes, tz \in ZoneNames :
                /\ SetUserSettings(c, u, rt, tz, TRUE, NoError)
                /\ UNCHANGED <<now, taskVars, schedVars, sweepVars, histVars>>
    \/ Start /\ UNCHANGED <<now, taskVars, settingsVars, sweepVars, histVars>>
    \/ TickerFire /\ UNCHANGED <<now, taskVars, settingsVars, sweepVars, histVars>>
    \/ \E tasksOk, settingsOk \in BOOLEAN :
          /\ TickBegin(tasksOk, settingsOk)
          /\ last' = <<"sendReminders", 0, ReadError(tasksOk, settingsOk)>>
          /\ UNCHANGED <<now, taskVars, settingsVars, sweepVars, trip, reminded>>
    \/ \E c \in Chats, apiOk \in BOOLEAN :
          TickChat(c, apiOk) /\ UNCHANGED <<now, taskVars, settingsVars, sweepVars, histVars>>
    \/ schedPc # "init" /\ Tick

SpecSched == Init /\ [][NextSched]_vars

\* The sweeper, with the bot tracking the messages it sends.
NextSweep ==
    \/ \E c \in Chats, ok \in BOOLEAN :
          TrackBotMessage(c, ok)
             /\ UNCHANGED <<now, taskVars, settingsVars, schedVars, histVars>>
    \/ CleanupStart /\ UNCHANGED <<now, taskVars, settingsVars, schedVars, histVars>>
    \/ CleanupTickerFire /\ UNCHANGED <<now, taskVars, settingsVars, schedVars, histVars>>
    \/ \E queryOk \in BOOLEAN :
          SweepBegin(queryOk)
             /\ UNCHANGED <<now, taskVars, settingsVars, schedVars, histVars>>
    \/ \E deleteOk, untrackOk \in BOOLEAN :
          SweepMessage(deleteOk, untrackOk)
             /\ UNCHANGED <<now, taskVars, settingsVars, schedVars, histVars>>
    \/ Tick

SpecSweep == Init /\ [][NextSweep]_vars

\* The DeleteMessage attempts so far: the tracking records DeleteMessage was
\* called for, those it was called for again, those it returned an error
\* for, and those a failed DeleteBotMessage call left in the store.
NoAttempts == [tried |-> {}, retried |-> {}, refused |-> {}, kept |-> {}]
Attempts == IF last[1] = "DeleteMessage" THEN last[3] ELSE NoAttempts
AttemptsAfter(id, deleteErr, untrackErr) ==
    [tried |-> Attempts.tried \cup {id},
     retried |-> IF id \in Attempts.tried THEN Attempts.retried \cup {id}
                 ELSE Attempts.retried,
     refused |-> IF deleteErr THEN Attempts.refused \cup {id} ELSE Attempts.refused,
     kept |-> IF untrackErr THEN Attempts.kept \cup {id} ELSE Attempts.kept]

\* The sweeper, with the bot tracking the messages it sends and the
\* DeleteMessage attempts kept.
NextRetry ==
    \/ \E c \in Chats, ok \in BOOLEAN :
          TrackBotMessage(c, ok)
             /\ UNCHANGED <<now, taskVars, settingsVars, schedVars, histVars>>
    \/ CleanupStart /\ UNCHANGED <<now, taskVars, settingsVars, schedVars, histVars>>
    \/ CleanupTickerFire /\ UNCHANGED <<now, taskVars, settingsVars, schedVars, histVars>>
    \/ \E queryOk \in BOOLEAN :
          SweepBegin(queryOk)
             /\ UNCHANGED <<now, taskVars, settingsVars, schedVars, histVars>>
    \/ \E deleteOk, untrackOk \in BOOLEAN :
          /\ SweepMessage(deleteOk, untrackOk)
          /\ last' = <<"DeleteMessage", 0,
                       AttemptsAfter(sweepLog'[Len(sweepLog')].id,
                                     sweepLog'[Len(sweepLog')].deleteErr,
                                     sweepLog'[Len(sweepLog')].untrackErr)>>
          /\ UNCHANGED <<now, taskVars, settingsVars, schedVars, trip, reminded>>
    \/ Tick

SpecRetry == Init /\ [][NextRetry]_vars

(* ------------------------------ claims --------------------------------- *)

Range(seq) == {seq[i] : i \in 1..Len(seq)}

HasStatus(doc, status) == "status" \in DOMAIN doc /\ doc.status = status

CompletedAtOf(doc) == IF "completed_at" \in DOMAIN doc THEN doc.completed_at ELSE -1

\* C1: Closed is terminal: a step never takes a stored task whose status is
\* Closed to another status or changes its completedAt; a call on it is
\* rejected or changes neither.
C1_ClosedIsTerminal ==
    [][\A id \in DOMAIN tasks \cap DOMAIN tasks' :
          HasStatus(tasks[id], TaskStatusClosed)
             => /\ HasStatus(tasks'[id], TaskStatusClosed)
                /\ CompletedAtOf(tasks'[id]) = CompletedAtOf(tasks[id])]_vars

\* C2: the map GetAllActiveTasks returns holds no task whose stored status is
\* Closed, under any chat.
C2_NoClosedInActiveMap ==
    LET m == GetAllActiveTasks(tasks)
    IN \A c \in DOMAIN m : \A id \in Range(m[c]) :
          ~HasStatus(tasks[id], TaskStatusClosed)

\* C2's case: the store holds a Closed task and the map is not empty.
C2_Witness ==
    /\ \E id \in DOMAIN tasks : HasStatus(tasks[id], TaskStatusClosed)
    /\ DOMAIN GetAllActiveTasks(tasks) # {}

\* C8: CompleteTask then ReactivateTask on an Active task without completedAt
\* leaves exactly the record it started from.
C8_RoundTripExact ==
    (trip # None /\ trip.phase = "reactivated")
       => trip.id \in DOMAIN tasks /\ tasks[trip.id] = trip.start

\* C8's case: a round trip has been made, the completion at a later minute
\* than the task's creation.
C8_Witness ==
    /\ trip # None
    /\ trip.phase = "reactivated"
    /\ now > trip.start.created_at

\* C9: a stored task is in GetAllActiveTasks, under its own chat id and no
\* other, and in GetTasksByChatID of its chat, exactly when its status is not
\* Closed; CompletedToday tasks and tasks without a status field are in.
C9_EligibleIffNotClosed ==
    LET m == GetAllActiveTasks(tasks)
    IN \A id \in DOMAIN tasks :
          LET own == tasks[id].chat_id
              eligible == ~HasStatus(tasks[id], TaskStatusClosed)
          IN /\ eligible <=> (own \in DOMAIN m /\ id \in Range(m[own]))
             /\ eligible <=> id \in Range(GetTasksByChatID(tasks, own))
             /\ \A c \in Chats \ {own} :
                   /\ c \in DOMAIN m => id \notin Range(m[c])
                   /\ id \notin Range(GetTasksByChatID(tasks, c))

\* C9's case: a task without a status field and a CompletedToday task are both
\* returned.
C9_Witness ==
    LET m == GetAllActiveTasks(tasks)
    IN \E i, j \in DOMAIN tasks :
          /\ "status" \notin DOMAIN tasks[i]
          /\ HasStatus(tasks[j], TaskStatusCompletedToday)
          /\ i \in Range(m[tasks[i].chat_id])
          /\ j \in Range(m[tasks[j].chat_id])

\* The chats notified in this tick, call by call.
CallsTo(chat) == {i \in 1..Len(notified) : notified[i].chat = chat}

\* The reminder time and zone offset the tick holds for a chat: those of the
\* settings it read for the chat, else the defaults; the default zone when the
\* zone name does not resolve.
EffectiveTime(chat) ==
    IF chat \in DOMAIN tickSettings THEN tickSettings[chat].ReminderTime
    ELSE defaultTime

EffectiveOffset(chat) ==
    LET name == IF chat \in DOMAIN tickSettings THEN tickSettings[chat].Timezone
                ELSE defaultTimezone
    IN IF LoadLocation(name).err THEN LoadLocation(defaultTimezone).offset
       ELSE LoadLocation(name).offset

\* The stored tasks of a chat that are eligible for a reminder.
EligibleOf(chat) ==
    {id \in DOMAIN tasks :
        tasks[id].chat_id = chat /\ ~HasStatus(tasks[id], TaskStatusClosed)}

\* The tick that last began has run to its end.
TickDone == schedPc = "waiting" /\ tickAt # -1

\* The tick holds the eligible tasks of the store: its GetAllActiveTasks
\* call returned them.
TickGotTasks == tickTasks = ActiveTasksRead(tasks)

\* The minute at which a tick decides for a chat: the minute of the chat's
\* comparison, and the minute of the tick for a chat it compared no time for.
DecidedAt(chat) == IF chat \in DOMAIN visited THEN visited[chat] ELSE tickAt

\* Every chat the tick compared a time for got one reminder call when that
\* minute, formatted HH:MM in its zone, equals its reminder time, and none
\* otherwise; every call was made at such a minute of this tick.
CallsOnlyAtMatchingMinute ==
    /\ \A c \in DOMAIN visited :
          Cardinality(CallsTo(c)) =
             IF Format1504(visited[c], EffectiveOffset(c)) = EffectiveTime(c)
             THEN 1 ELSE 0
    /\ \A i \in 1..Len(notified) :
          /\ notified[i].chat \in DOMAIN visited
          /\ notified[i].at = visited[notified[i].chat]
          /\ notified[i].at >= tickAt

\* Every chat with an eligible task in the store got, in the tick that has
\* ended, one reminder call when the minute formatted HH:MM in its zone
\* equals its reminder time, and none otherwise.
EveryEligibleChatDecided ==
    \A c \in Chats :
       EligibleOf(c) # {}
          => Cardinality(CallsTo(c)) =
                IF Format1504(DecidedAt(c), EffectiveOffset(c)) = EffectiveTime(c)
                THEN 1 ELSE 0

StoredSettings(chat) == {settings[sid] : sid \in SettingsOf(settings, chat)}

HasDefaultSettings(chat) ==
    \E doc \in StoredSettings(chat) :
       doc.reminder_time = defaultTime /\ doc.timezone = defaultTimezone

\* C4: a chat with eligible tasks and no settings record is decided with the
\* default time in the default zone, and so is a chat whose stored settings
\* equal the defaults: both are reminded exactly at the default minute.
C4_NoSettingsMeansDefaults ==
    \A c \in DOMAIN visited :
       (StoredSettings(c) = {} \/ HasDefaultSettings(c))
          => (CallsTo(c) # {} <=>
                 Format1504(visited[c], LoadLocation(defaultTimezone).offset)
                    = defaultTime)

\* C4's case: one tick reminded a chat without settings and a chat whose
\* settings equal the defaults.
C4_Witness ==
    \E c, d \in DOMAIN visited :
       /\ StoredSettings(c) = {}
       /\ HasDefaultSettings(d)
       /\ CallsTo(c) # {}
       /\ CallsTo(d) # {}

\* C10: no reminder call is made for a chat without an eligible task, and no
\* call carries an empty task list.
C10_NoCallWithoutEligibleTask ==
    \A i \in 1..Len(notified) :
       /\ EligibleOf(notified[i].chat) # {}
       /\ Len(notified[i].tasks) > 0

\* C10's case: a tick has run to its end in the minute that is the reminder
\* time of a chat all of whose tasks are Closed, and made no call for it.
C10_Witness ==
    \E c \in Chats :
       /\ \E id \in DOMAIN tasks : tasks[id].chat_id = c
       /\ EligibleOf(c) = {}
       /\ schedPc = "waiting"
       /\ tickAt = now
       /\ DOMAIN tickSettings = {d \in Chats : StoredSettings(d) # {}}
       /\ Format1504(now, EffectiveOffset(c)) = EffectiveTime(c)
       /\ CallsTo(c) = {}
       /\ Len(notified) > 0

\* The sweep that last began has run to its end.
SweepDone == cleanPc = "waiting" /\ sweepCutoff # -1

SameCutoffAgain ==
    /\ prevSweep # None
    /\ prevSweep.cutoff = sweepCutoff
    /\ prevSweep.mid = sweepMid

UpsertedInPlace(chat, user, reminderTime, timezone) ==
    /\ \A c \in Chats : Cardinality(SettingsOf(settings', c)) <= 1
    /\ \A sid \in DOMAIN settings :
          settings[sid].chat_id # chat
             => sid \in DOMAIN settings' /\ settings'[sid] = settings[sid]
    /\ \E sid \in SettingsOf(settings', chat) :
          /\ settings'[sid].user_id = user
          /\ settings'[sid].reminder_time = reminderTime
          /\ settings'[sid].timezone = timezone
          /\ settings'[sid].updated_at = now
          /\ IF SettingsOf(settings, chat) = {}
             THEN /\ sid \notin DOMAIN settings
                  /\ settings'[sid].created_at = now
             ELSE /\ SettingsOf(settings, chat) = {sid}
                  /\ settings'[sid].created_at = settings[sid].created_at

\* C7: after a SetUserSettings call a chat has one settings record: the first
\* call creates it, a later call puts the new reminder time, timezone, user and
\* updatedAt in that record, keeps its createdAt, and leaves the other chats'
\* records as they were.
C7_OneSettingsRecordPerChat ==
    [][\A c \in Chats, u \in Users, rt \in ReminderTimes, tz \in ZoneNames :
          SetUserSettings(c, u, rt, tz, TRUE, NoError)
             => UpsertedInPlace(c, u, rt, tz)]_vars

\* C7's case: both chats have a record, one of them updated in a later minute
\* than it was created.
C7_Witness ==
    /\ \A c \in Chats : Cardinality(SettingsOf(settings, c)) = 1
    /\ \E sid \in DOMAIN settings :
          settings[sid].updated_at > settings[sid].created_at

\* A two-digit 24-hour HH:MM text: hours 00 to 23, minutes 00 to 59.
IsHHMM(text) ==
    /\ Len(text) = 5
    /\ text[3] = ":"
    /\ \A i \in {1, 2, 4, 5} : text[i] \in DigitChars
    /\ 10 * DigitValue(text[1]) + DigitValue(text[2]) <= 23
    /\ 10 * DigitValue(text[4]) + DigitValue(text[5]) <= 59

\* C11: after a /setreminder command every settings record has a two-digit
\* 24-hour HH:MM reminder time and a timezone that resolves to a zone, and a
\* command whose time is not such a text or whose zone does not resolve
\* leaves the settings store as it was.
C11_SetReminderStoresValidSettings ==
    [][\A c \in Chats, u \in Users, nargs \in 1..2, timeArg \in TimeArgs,
          zoneArg \in ZoneNames, ok \in BOOLEAN :
          handleSetReminder(c, u, nargs, timeArg, zoneArg, ok)
             => /\ \A sid \in DOMAIN settings' :
                      /\ IsHHMM(settings'[sid].reminder_time)
                      /\ ~LoadLocation(settings'[sid].timezone).err
                /\ (~IsHHMM(timeArg) \/ (nargs > 1 /\ LoadLocation(zoneArg).err))
                      => settings' = settings]_vars

\* C12: CompleteTask, ReactivateTask, CloseTask and DeleteTask on a task id
\* that is not in the store never return nil: each returns "task not found"
\* when the database answers, and an error also when it does not, and each
\* leaves the task store as it was.
C12_MissingIdIsNotFound ==
    [][\A id \in TaskIds \ DOMAIN tasks, ok \in BOOLEAN, err \in Errors :
          (\/ CompleteTask(id, ok, err)
           \/ ReactivateTask(id, ok, err)
           \/ CloseTask(id, ok, err)
           \/ DeleteTask(id, ok, err))
             => /\ err # NoError
                /\ ok => err = ErrNotFound
                /\ tasks' = tasks
                /\ nextId' = nextId]_vars

\* C12's case: a call on an id that was deleted from a store that holds
\* another task has returned "task not found".
C12_Witness ==
    /\ last = <<"missing", 0, ErrNotFound>>
    /\ tasks # <<>>
    /\ nextId > Cardinality(DOMAIN tasks) + 1

\* The tick that last began could not read the settings.
SettingsReadFailed == last = <<"sendReminders", 0, "settings">>

\* C13: a tick whose GetAllUserSettings call failed processes every chat
\* with eligible tasks, and decides each with the default reminder time in
\* the default timezone, whatever settings the store holds for it.
C13_SettingsFailureMeansDefaults ==
    SettingsReadFailed =>
       /\ todo \cup DOMAIN visited = {c \in Chats : EligibleOf(c) # {}}
       /\ \A c \in DOMAIN visited :
             Cardinality(CallsTo(c)) =
                IF Format1504(visited[c], LoadLocation(defaultTimezone).offset)
                      = defaultTime
                THEN 1 ELSE 0

\* C13's case: such a tick has ended and reminded, at the default time, a
\* chat whose stored settings are not the defaults.
C13_Witness ==
    /\ SettingsReadFailed
    /\ TickDone
    /\ \E c \in DOMAIN visited :
          /\ StoredSettings(c) # {}
          /\ ~HasDefaultSettings(c)
          /\ CallsTo(c) # {}

\* The chats for which the tick holds settings whose timezone does not
\* resolve.
UnresolvedZoneChats ==
    {c \in DOMAIN tickSettings : LoadLocation(tickSettings[c].Timezone).err}

\* C14: a chat whose stored timezone does not resolve is decided by its own
\* reminder time against the minute in the default timezone, and the tick
\* goes on: every chat of the tick is visited or still to be visited.
C14_UnresolvedZoneFallsBack ==
    /\ \A c \in UnresolvedZoneChats \cap DOMAIN visited :
          Cardinality(CallsTo(c)) =
             IF Format1504(visited[c], LoadLocation(defaultTimezone).offset)
                   = tickSettings[c].ReminderTime
             THEN 1 ELSE 0
    /\ UnresolvedZoneChats # {} =>
          /\ todo \cup DOMAIN visited = DOMAIN tickTasks
          /\ TickDone => todo = {}

\* C14's case: a tick has ended in which a chat with an unresolvable zone
\* was reminded at its own reminder time, 09:01 in the default zone, and the
\* other chat was visited as well.
C14_Witness ==
    /\ TickDone
    /\ DOMAIN visited = Chats
    /\ \E c \in UnresolvedZoneChats :
          /\ tickSettings[c].ReminderTime = T0901
          /\ CallsTo(c) # {}

\* C15: when a send of a tick failed, every other chat of the tick still
\* gets its own decision: it is visited or still to be visited, and once
\* the tick has ended it has had exactly one send attempt if its minute
\* matched and none otherwise.
C15_FailedSendDoesNotStopOthers ==
    \A i \in 1..Len(notified) :
       notified[i].err =>
          \A d \in DOMAIN tickTasks \ {notified[i].chat} :
             /\ d \in todo \cup DOMAIN visited
             /\ TickDone =>
                   /\ d \in DOMAIN visited
                   /\ Cardinality(CallsTo(d)) =
                         IF Format1504(visited[d], EffectiveOffset(d)) = EffectiveTime(d)
                         THEN 1 ELSE 0

\* C15's case: the first send of a tick failed and the tick went on to make
\* a send attempt for another chat.
C15_Witness ==
    /\ TickDone
    /\ Len(notified) = 2
    /\ notified[1].err
    /\ notified[2].chat # notified[1].chat

\* C16: once ctx is cancelled or Stop has closed the loop's stopChan, the
\* reminder loop begins no tick and the sweeper loop begins no sweep.
C16_NoNewWorkAfterShutdown ==
    [][/\ closed \cap SchedulerDone # {}
             => ~(\E tasksOk, settingsOk \in BOOLEAN : TickBegin(tasksOk, settingsOk))
       /\ closed \cap CleanupDone # {}
             => ~(\E queryOk \in BOOLEAN : SweepBegin(queryOk))]_vars

LocalDay(t, offset) == (t + offset) \div 1440

\* C18: a chat's next reminder is sent on a later calendar day, in the
\* chat's timezone, than its last one.
C18_OnceDaily ==
    [][\A c \in DOMAIN reminded :
          reminded'[c].n > reminded[c].n
             => LocalDay(reminded'[c].at, EffectiveOffset(c))
                   > LocalDay(reminded[c].at, EffectiveOffset(c))]_vars

\* The reminder time and zone offset configured for a chat: those of its
\* settings record, else the defaults.
ConfiguredTime(chat) ==
    IF StoredSettings(chat) = {} THEN defaultTime
    ELSE (CHOOSE doc \in StoredSettings(chat) : TRUE).reminder_time

ConfiguredOffset(chat) ==
    IF StoredSettings(chat) = {} THEN LoadLocation(defaultTimezone).offset
    ELSE LoadLocation((CHOOSE doc \in StoredSettings(chat) : TRUE).timezone).offset

\* C19: while the scheduler runs with a tick in every minute and the
\* notifier answers, a chat with an eligible task, and with no settings or
\* settings that /setreminder accepted, is eventually sent a reminder at its
\* configured time.
C19_EventuallyReminded ==
    \A c \in Chats :
       (schedPc # "init" /\ EligibleOf(c) # {})
          ~> (/\ c \in DOMAIN reminded
              /\ Format1504(reminded[c].at, ConfiguredOffset(c)) = ConfiguredTime(c))

\* C20: no task in a list handed to the notifier is Closed in the store at
\* the moment of the send, whenever the close happened.
C20_NoClosedTaskInReminder ==
    [][Len(notified') > Len(notified) =>
          LET call == notified'[Len(notified')]
          IN \A k \in 1..Len(call.tasks) :
                /\ call.tasks[k].ID \in DOMAIN tasks
                /\ ~HasStatus(tasks[call.tasks[k].ID], TaskStatusClosed)]_vars

C22_OneTickAtATime ==
    [][/\ Runs(2)'.work > Runs(2).work => schedPc = "waiting" /\ todo = {}
       /\ Runs(3)'.work > Runs(3).work =>
             cleanPc \in {"starting", "waiting"} /\ sweepList = <<>>]_vars

\* The timers of both loops have fired while a tick and a sweep that began
\* earlier are still under way.
C22_Witness ==
    /\ schedPc = "ticking" /\ tickPending /\ Runs(2).work >= 1
    /\ cleanPc = "sweeping" /\ cleanPending /\ Runs(3).work >= 1

\* The variables of a reminder tick, and of a sweep.
tickVars == <<schedPc, tickPending, tickAt, tickTasks, tickSettings, todo, visited,
              notified>>
sweepRunVars == <<cleanPc, cleanPending, sweepCutoff, sweepList, sweepLog>>

C25_EverySentMessageTracked ==
    [][(/\ Len(notified') > Len(notified)
        /\ notified'[Len(notified')].sent
        /\ ~notified'[Len(notified')].err)
          => \E id \in DOMAIN botMessages' \ DOMAIN botMessages :
                /\ botMessages'[id].chat_id = notified'[Len(notified')].chat
                /\ botMessages'[id].sent_at = notified'[Len(notified')].at]_vars

\* C26: once a loop has been started and its Stop has been called or the
\* context cancelled, in whichever order, the loop returns.
C26_StopTerminates ==
    /\ (schedPc # "init" /\ ("ctx.Done" \in closed \/ "stopChan" \in closed))
          ~> (schedPc = "stopped")
    /\ (cleanPc # "init" /\ ("ctx.Done" \in closed \/ "cleanup.stopChan" \in closed))
          ~> (cleanPc = "stopped")

\* Both loops have returned after their Stop alone, the scheduler after a
\* tick and the sweeper after a sweep that handled a message.
C26_Witness ==
    /\ schedPc = "stopped"
    /\ cleanPc = "stopped"
    /\ closed = {"stopChan", "cleanup.stopChan"}
    /\ tickAt # -1
    /\ Len(sweepLog) > 0

\* C27: CompleteTask on a stored task whose status is Active or
\* CompletedToday, the store answering, leaves it CompletedToday with
\* completedAt the time of the call; of a CompletedToday task it changes
\* completedAt only; no other task changes.
C27_CompleteSetsCompletedToday ==
    [][\A id \in DOMAIN tasks :
          (/\ \/ HasStatus(tasks[id], TaskStatusActive)
              \/ HasStatus(tasks[id], TaskStatusCompletedToday)
           /\ CompleteTask(id, TRUE, NoError))
          => /\ DOMAIN tasks' = DOMAIN tasks
             /\ HasStatus(tasks'[id], TaskStatusCompletedToday)
             /\ CompletedAtOf(tasks'[id]) = now
             /\ HasStatus(tasks[id], TaskStatusCompletedToday)
                   => tasks'[id] = SetFields(tasks[id], [completed_at |-> now])
             /\ \A other \in DOMAIN tasks \ {id} : tasks'[other] = tasks[other]]_vars

\* C27's case: the task completed last was CompletedToday since an earlier
\* minute, and is now the same record with the new completedAt, next to
\* another task.
C27_Witness ==
    /\ last[1] = "CompleteTask"
    /\ HasStatus(last[3], TaskStatusCompletedToday)
    /\ last[3].completed_at < now
    /\ last[2] \in DOMAIN tasks
    /\ tasks[last[2]] = SetFields(last[3], [completed_at |-> now])
    /\ Cardinality(DOMAIN tasks) >= 2

\* C28: ReactivateTask on a stored task whose status is Active or Closed
\* returns an error and changes nothing.
C28_ReactivateOnlyFromCompletedToday ==
    [][\A id \in DOMAIN tasks, ok \in BOOLEAN, err \in Errors :
          (/\ \/ HasStatus(tasks[id], TaskStatusActive)
              \/ HasStatus(tasks[id], TaskStatusClosed)
           /\ ReactivateTask(id, ok, err)
           /\ UNCHANGED now)
          => err # NoError /\ tasks' = tasks]_vars


\* C29: in every reachable state of the task store a task carries
\* completed_at exactly when it has been CompletedToday since it was created
\* or last reactivated: an Active task carries none, a CompletedToday task
\* carries one, and a Closed task carries one exactly when it was closed
\* from CompletedToday.
C29_CompletedAtIffReachedCompleted ==
    \A id \in DOMAIN tasks :
        LET doc == tasks[id]
            has == "completed_at" \in DOMAIN doc
        IN /\ has <=> id \in ReachedCompleted
           /\ HasStatus(doc, TaskStatusActive) => ~has
           /\ HasStatus(doc, TaskStatusCompletedToday) => has
           /\ HasStatus(doc, TaskStatusClosed) => (has <=> id \in ClosedFromCompleted)

\* A task closed from CompletedToday that carries completed_at next to a
\* task closed from Active that carries none.
C29_Witness ==
    \E i, j \in DOMAIN tasks :
        /\ HasStatus(tasks[i], TaskStatusClosed)
        /\ HasStatus(tasks[j], TaskStatusClosed)
        /\ i \in ClosedFromCompleted /\ "completed_at" \in DOMAIN tasks[i]
        /\ j \notin ClosedFromCompleted /\ "completed_at" \notin DOMAIN tasks[j]
        /\ "created_at" \in DOMAIN tasks[j] /\ tasks[j].created_at > 0


\* C30: a DeleteTask call that returns nil on an existing task removes its
\* record whatever its status and leaves every other task as it was; from
\* then on the id stays out of the store, no chat's list holds it, and every
\* call on it returns an error and changes nothing.
C30_DeleteRemovesRecord ==
    [][/\ \A id \in DOMAIN tasks :
             (last'[1] = "DeleteTask" /\ last'[2] = id /\ last'[3] = NoError)
             => /\ DOMAIN tasks' = DOMAIN tasks \ {id}
                /\ \A i \in DOMAIN tasks' : tasks'[i] = tasks[i]
       /\ \A id \in (1..(nextId - 1)) \ DOMAIN tasks :
             /\ id \notin DOMAIN tasks'
             /\ \A c \in Chats :
                   \A k \in 1..Len(GetTasksByChatID(tasks', c)) :
                       GetTasksByChatID(tasks', c)[k] # id
             /\ (last'[1] = "missing" /\ last'[2] = id)
                => last'[3] # NoError /\ tasks' = tasks]_vars

\* A task deleted while Closed, one deleted while CompletedToday or Active,
\* and a later call on a deleted id that returned "task not found".
C30_Witness ==
    /\ Len(last) = 4
    /\ last[1] = "missing" /\ last[3] = ErrNotFound
    /\ <<last[2], TaskStatusClosed>> \in Deleted
    /\ \E d \in Deleted : d[2] \in {TaskStatusActive, TaskStatusCompletedToday}


C32_HandsEligibleTasksOfChat ==
    \A k \in 1..Len(notified) :
        LET call == notified[k]
            coll == last[3]
            ids == {id \in DOMAIN coll :
                       /\ coll[id].chat_id = call.chat
                       /\ ~HasStatus(coll[id], TaskStatusClosed)}
        IN /\ last[1] = "sendReminders"
           /\ {call.tasks[i] : i \in 1..Len(call.tasks)}
                 = {TaskWithID(coll[id]) : id \in ids}
           /\ Len(call.tasks) = Cardinality(ids)

\* A reminder whose list holds a CompletedToday task that has been closed
\* since the tick began, while another chat has a task of its own.
C32_Witness ==
    \E k \in 1..Len(notified) :
        /\ \E i \in 1..Len(notified[k].tasks) :
              /\ notified[k].tasks[i].Status = TaskStatusCompletedToday
              /\ HasStatus(tasks[notified[k].tasks[i].ID], TaskStatusClosed)
        /\ \E id \in DOMAIN tasks : tasks[id].chat_id # notified[k].chat


\* C33: a tick decides from the stores as they are when it begins and from
\* the time alone: it visits exactly the chats that then have a task that
\* is not closed, and sends to a visited chat exactly when the minute of
\* the visit is the reminder time the settings store then held for it (the
\* defaults without a record), whatever earlier ticks read or sent.
C33_TickUsesStoresAsTheyAre ==
    [][/\ (schedPc' = "waiting" /\ last'[1] = "sendReminders")
          => DOMAIN visited' = last'[2]
       /\ \A c \in DOMAIN visited' \ DOMAIN visited :
             /\ c \in last[2]
             /\ Len(notified') > Len(notified)
                <=> shouldSendReminderForUser(last[3][c][1], last[3][c][2], now)]_vars

\* The second tick sends to a chat at 09:01 because of a reminder time the
\* chat set after the first tick, and passes over a chat whose task was
\* closed in the meantime.
C33_Witness ==
    /\ last[1] = "sendReminders"
    /\ schedPc = "waiting"
    /\ \E k \in 1..Len(notified) :
          /\ notified[k].chat = 1
          /\ last[3][1][1] = T0901
          /\ \E sid \in DOMAIN settings : settings[sid].updated_at = notified[k].at - 1
    /\ \E id \in DOMAIN tasks :
          /\ tasks[id].chat_id = 2
          /\ HasStatus(tasks[id], TaskStatusClosed)
    /\ 2 \notin DOMAIN visited


\* C34: a tick whose GetAllActiveTasks call failed visits no chat and sends
\* nothing, and sendReminders is begun once for each tick of the ticker at
\* most, a failed one included; within a tick a chat is the target of one
\* send at most, failed or not; and every send of every tick is made at a
\* minute that equals the chat's reminder time.
C34_FailuresAreNotRetried ==
    /\ last[3] = "tasks" => notified = <<>> /\ todo = {} /\ schedPc # "ticking"
    /\ TickCounts.runs <= TickCounts.fires
    /\ \A j, k \in 1..Len(notified) : j # k => notified[j].chat # notified[k].chat
    /\ \A k \in 1..Len(notified) :
          LET resolved == ReminderTimeOfChat(settings)[notified[k].chat]
          IN shouldSendReminderForUser(resolved[1], resolved[2], notified[k].at)

\* After a tick whose task read failed, the next tick has ended with a
\* single send to a chat, which failed.
C34_Witness ==
    /\ TickCounts.misses = 1 /\ TickCounts.runs = 2
    /\ TickDone
    /\ \E k \in 1..Len(notified) : notified[k].err


\* C35: a step of a loop in which a store or notifier call failed leaves
\* the loop running, in its select or in the rest of its tick or sweep, and
\* a loop ends only with ctx cancelled or its stopChan closed.
C35_ErrorsDoNotEndLoops ==
    [][/\ (last'[1] = "errors" /\ last'[2] = "sched")
             => schedPc' \in {"waiting", "ticking"}
       /\ (last'[1] = "errors" /\ last'[2] = "cleanup")
             => cleanPc' \in {"waiting", "sweeping"}
       /\ (schedPc' = "stopped" /\ schedPc # "stopped")
             => closed \cap {"ctx.Done", "stopChan"} # {}
       /\ (cleanPc' = "stopped" /\ cleanPc # "stopped")
             => closed \cap {"ctx.Done", "cleanup.stopChan"} # {}]_vars

\* Each loop has begun a tick or sweep after a call of it failed, nothing
\* is cancelled or stopped, and in the sweep under way a transport delete
\* and an untrack have failed again.
C35_Witness ==
    /\ LoopHealth.sched = "resumed"
    /\ LoopHealth.cleanup = "resumed"
    /\ closed = {}
    /\ schedPc \in {"waiting", "ticking"}
    /\ cleanPc \in {"waiting", "sweeping"}
    /\ \E k \in 1..Len(sweepLog) : sweepLog[k].deleteErr /\ sweepLog[k].untrackErr


\* C36: every message a sweep calls DeleteMessage or DeleteBotMessage for,
\* or still has on its list, was in the store with sent_at strictly before
\* now - messageAge when the sweep began, so none of them was tracked
\* after that; and a sweep whose query failed makes no call at all.
C36_SweepTouchesOnlyOldMessages ==
    /\ \A k \in 1..Len(sweepLog) :
          sweepLog[k].id \in sweepOld /\ sweepLog[k].id < sweepMid
    /\ \A k \in 1..Len(sweepList) :
          sweepList[k]._id \in sweepOld /\ sweepList[k].sent_at < sweepCutoff
    /\ (~sweepStoreOk /\ \A k \in 1..Len(sweepLog) : ~sweepLog[k].untrackErr)
          => sweepLog = <<>> /\ sweepList = <<>>

\* A sweep that handled an old message has ended, and the store still
\* holds a message tracked while the sweep was running.
C36_Witness ==
    /\ SweepDone
    /\ Len(sweepLog) >= 1
    /\ \E id \in DOMAIN botMessages :
          id >= sweepMid /\ botMessages[id].sent_at >= sweepCutoff


\* C37: no update the bot handles, /add, /done, /delete, /setreminder or a
\* button press with any data, changes a task that is Closed.
C37_HandlersLeaveClosedAlone ==
    [][\A id \in DOMAIN tasks :
          HasStatus(tasks[id], TaskStatusClosed)
             => id \in DOMAIN tasks' /\ tasks'[id] = tasks[id]]_vars

\* A button of an old reminder was pressed for a task that had been closed
\* since, in its own chat with the store answering, and the task is still
\* Closed; another task of the chat has been completed by a button.
C37_Witness ==
    /\ Len(last) = 4
    /\ last[1] = "handleCallbackQuery" /\ last[3] = "not found"
    /\ last[4] \in DOMAIN tasks
    /\ tasks[last[4]].chat_id = last[2]
    /\ HasStatus(tasks[last[4]], TaskStatusClosed)
    /\ \E other \in DOMAIN tasks :
          /\ tasks[other].chat_id = last[2]
          /\ HasStatus(tasks[other], TaskStatusCompletedToday)

\* C38: an update handled for chat c leaves every task of another chat as
\* it was and adds only tasks of c; a /done or /delete with a number out of
\* range, and a button press with the id of another chat's task or of no
\* stored task, change no task at all.
C38_HandlersStayInTheirChat ==
    [][LET c == last'[2]
       IN /\ \A id \in DOMAIN tasks :
                tasks[id].chat_id # c
                   => id \in DOMAIN tasks' /\ tasks'[id] = tasks[id]
          /\ \A id \in DOMAIN tasks' \ DOMAIN tasks : tasks'[id].chat_id = c
          /\ (last'[1] \in {"handleDone", "handleDelete"}
                /\ last'[3] = "invalid task number") => tasks' = tasks
          /\ (/\ last'[1] = "handleCallbackQuery"
              /\ \/ last'[4] \notin DOMAIN tasks
                 \/ tasks[last'[4]].chat_id # c) => tasks' = tasks]_vars

\* A button was pressed in one chat with the id of a task of another chat
\* that is open there, the store answering, and that task is as it was.
C38_Witness ==
    /\ Len(last) = 4
    /\ last[1] = "handleCallbackQuery" /\ last[3] = "not found"
    /\ last[4] \in DOMAIN tasks
    /\ tasks[last[4]].chat_id # last[2]
    /\ HasStatus(tasks[last[4]], TaskStatusActive)
    /\ \E other \in DOMAIN tasks : tasks[other].chat_id = last[2]


\* C39: whether a chat is sent a reminder in a tick depends on its own
\* eligible tasks and settings and on the time of the tick only, so two
\* chats that a tick visits with the same reminder time and zone are both
\* sent a reminder or both not, whatever the order of the visits and the
\* outcome and duration of the sends.
C39_SameSettingsSameDecision ==
    TickDone =>
       \A c, d \in DOMAIN visited :
          (EffectiveTime(c) = EffectiveTime(d) /\ EffectiveOffset(c) = EffectiveOffset(d))
             => (CallsTo(c) = {} <=> CallsTo(d) = {})

====
